---------------------------- MODULE Spec2Model ----------------------------
(***************************************************************************)
(* A model of the lift tracker's front end (app.js, lifts.js): session     *)
(* rotation, prescription ("rx") parsing, and the save path of the entry   *)
(* form against the per-user entry store.                                  *)
(*                                                                         *)
(* A string is a sequence of one-character strings.  A form field is <<>>  *)
(* when empty and <<n>> when it holds the number n.                        *)
(***************************************************************************)
EXTENDS Integers, Sequences, FiniteSets, Bags, TLC

(***************************************************************************)
(* Characters and strings                                                  *)
(***************************************************************************)

\* The multiplication sign U+00D7, one character of the source's [×x] class.
MulSign == "U+00D7"

Digit == {"0", "1", "2", "3", "4", "5", "6", "7", "8", "9"}

\* The characters the regular expression's \s and String.trim treat as space.
WhiteSpace == {" ", "\t"}

\* JavaScript's undefined and null, kept apart from every string: no string
\* has a many-character element.
Undefined == <<"undefined">>

Null == <<"null">>

Falsy(v) == v \in {Undefined, Null, <<>>}

ToLowerChar(c) ==
    CASE c = "A" -> "a" [] c = "L" -> "l" [] c = "T" -> "t" [] c = "S" -> "s"
      [] c = "I" -> "i" [] c = "D" -> "d" [] c = "E" -> "e" [] c = "X" -> "x"
      [] OTHER -> c

ToLower(s) == [i \in 1..Len(s) |-> ToLowerChar(s[i])]

StartsWith(s, p) == Len(s) >= Len(p) /\ SubSeq(s, 1, Len(p)) = p

\* str.substring(n): the string from (0-based) index n on.
Substring(s, n) == SubSeq(s, n + 1, Len(s))

\* LastSplitPart taking the first element of the split, what precedes the
\* first comma.
FirstSplitPart(s) ==
    LET commas == {i \in 1..Len(s) : s[i] = ","}
    IN IF commas = {} THEN s
       ELSE SubSeq(s, 1, (CHOOSE i \in commas : \A j \in commas : i <= j) - 1)

\* The last element of str.split(','): what follows the last comma.
LastSplitPart(s) ==
    LET commas == {i \in 1..Len(s) : s[i] = ","}
        from == IF commas = {} THEN 1
                ELSE (CHOOSE i \in commas : \A j \in commas : j <= i) + 1
    IN SubSeq(s, from, Len(s))

Trim(s) ==
    LET solid == {i \in 1..Len(s) : s[i] \notin WhiteSpace}
    IN IF solid = {} THEN <<>>
       ELSE SubSeq(s, CHOOSE i \in solid : \A j \in solid : i <= j,
                      CHOOSE i \in solid : \A j \in solid : j <= i)

\* str.replace(/\/side/i, ''): the first occurrence, in any letter case, of
\* "/side" is removed, wherever it stands.
SideMark == <<"/", "s", "i", "d", "e">>

\* StripSide removing one character more, the one before the mark.
StripSideWide(s) ==
    LET hits == {i \in 1..(Len(s) - 4) : ToLower(SubSeq(s, i, i + 4)) = <<"/", "s", "i", "d", "e">>}
    IN IF hits = {} THEN s
       ELSE LET i == CHOOSE h \in hits : \A j \in hits : h <= j
            IN SubSeq(s, 1, i - 2) \o SubSeq(s, i + 5, Len(s))

StripSide(s) ==
    LET hits == {i \in 1..(Len(s) - 4) : ToLower(SubSeq(s, i, i + 4)) = SideMark}
    IN IF hits = {} THEN s
       ELSE LET i == CHOOSE h \in hits : \A j \in hits : h <= j
            IN SubSeq(s, 1, i - 1) \o SubSeq(s, i + 5, Len(s))

RECURSIVE ParseInt(_)
\* parseInt of a string of decimal digits.
ParseInt(ds) ==
    IF ds = <<>> THEN 0
    ELSE 10 * ParseInt(SubSeq(ds, 1, Len(ds) - 1))
         + (CHOOSE n \in 0..9 : ToString(n) = ds[Len(ds)])

(***************************************************************************)
(* The scheme pattern of parseRx,                                          *)
(*   /(\d+)(?:\s*-\s*(\d+))?\s*[×x]\s*(\d+)(?:\s*-\s*(\d+))?/i             *)
(* as a list of items matched by backtracking, the way String.match does:  *)
(* leftmost start, each repetition greedy, an optional group tried first   *)
(* with the group and then without it.                                     *)
(***************************************************************************)
RangeGroup(k) ==
    <<[kind |-> "star", set |-> WhiteSpace],
      [kind |-> "char", set |-> {"-"}],
      [kind |-> "star", set |-> WhiteSpace],
      [kind |-> "plus", set |-> Digit, cap |-> k]>>

SchemePattern ==
    <<[kind |-> "plus", set |-> Digit, cap |-> 1],
      [kind |-> "opt", items |-> RangeGroup(2)],
      [kind |-> "star", set |-> WhiteSpace],
      [kind |-> "char", set |-> {MulSign, "x", "X"}],
      [kind |-> "star", set |-> WhiteSpace],
      [kind |-> "plus", set |-> Digit, cap |-> 3],
      [kind |-> "opt", items |-> RangeGroup(4)]>>

NoCaptures == [k \in 1..4 |-> <<>>]

MatchFail == [ok |-> FALSE, caps |-> NoCaptures]

\* The length of the longest run of characters of set in s from position pos.
RunLength(s, pos, set) ==
    LET stops == {i \in pos..Len(s) : s[i] \notin set}
    IN IF stops = {} THEN Len(s) - pos + 1
       ELSE (CHOOSE i \in stops : \A j \in stops : i <= j) - pos

RECURSIVE MatchItems(_, _, _, _), MatchRun(_, _, _, _, _, _)
\* The items matched against s from position pos on, with the captures so far.
MatchItems(items, s, pos, caps) ==
    IF items = <<>> THEN [ok |-> TRUE, caps |-> caps]
    ELSE LET it == Head(items)
             rest == Tail(items)
         IN CASE it.kind = "char" ->
                   IF pos <= Len(s) /\ s[pos] \in it.set
                   THEN MatchItems(rest, s, pos + 1, caps)
                   ELSE MatchFail
              [] it.kind = "opt" ->
                   LET with == MatchItems(it.items \o rest, s, pos, caps)
                   IN IF with.ok THEN with ELSE MatchItems(rest, s, pos, caps)
              [] it.kind = "plus" ->
                   MatchRun(it, rest, s, pos, caps, RunLength(s, pos, it.set))
              [] it.kind = "star" ->
                   MatchRun(it, rest, s, pos, caps, RunLength(s, pos, it.set))

\* A greedy repetition: n characters first, then fewer, down to its minimum.
MatchRun(it, rest, s, pos, caps, n) ==
    IF n < (IF it.kind = "plus" THEN 1 ELSE 0) THEN MatchFail
    ELSE LET caps2 == IF it.kind = "plus"
                      THEN [caps EXCEPT ![it.cap] = SubSeq(s, pos, pos + n - 1)]
                      ELSE caps
             r == MatchItems(rest, s, pos + n, caps2)
         IN IF r.ok THEN r ELSE MatchRun(it, rest, s, pos, caps, n - 1)

RECURSIVE MatchFrom(_, _)
\* str.match(pattern): the match at the leftmost position that has one.
MatchFrom(s, pos) ==
    IF pos > Len(s) THEN MatchFail
    ELSE LET r == MatchItems(SchemePattern, s, pos, NoCaptures)
         IN IF r.ok THEN r ELSE MatchFrom(s, pos + 1)

MatchScheme(s) == MatchFrom(s, 1)

\* The list after "alt:" is cut down to its last scheme.
AltLast(rx) ==
    IF StartsWith(ToLower(rx), <<"a", "l", "t", ":">>)
    THEN Trim(LastSplitPart(Substring(rx, 4)))
    ELSE rx

\* OrElse keeping the first number of a range, the lower bound.
OrElseLower(a, b) == b

\* a || b on capture groups: an unmatched group is undefined.
OrElse(a, b) == IF a # <<>> THEN a ELSE b

ParseNull == [isNull |-> TRUE]

\* parseRx returning a target of zeros where it has nothing to return.
parseRxNoNull(rx) ==
    IF Falsy(rx) THEN [maxSets |-> 0, maxReps |-> 0]
    ELSE LET m == MatchScheme(StripSide(AltLast(rx)))
         IN IF ~m.ok THEN [maxSets |-> 0, maxReps |-> 0]
            ELSE [maxSets |-> ParseInt(OrElse(m.caps[2], m.caps[1])),
                  maxReps |-> ParseInt(OrElse(m.caps[4], m.caps[3]))]

parseRx(rx) ==
    IF Falsy(rx) THEN ParseNull
    ELSE LET m == MatchScheme(StripSide(AltLast(rx)))
         IN IF ~m.ok THEN ParseNull
            ELSE [maxSets |-> ParseInt(OrElse(m.caps[2], m.caps[1])),
                  maxReps |-> ParseInt(OrElse(m.caps[4], m.caps[3]))]

(***************************************************************************)
(* The static catalogue (lifts.js)                                         *)
(***************************************************************************)
LIFTS ==
    <<[id |-> "box_jumps"],
      [id |-> "barbell_bench_press"],
      [id |-> "leg_press"],
      [id |-> "db_incline_press"],
      [id |-> "cable_fly"],
      [id |-> "row"],
      [id |-> "triceps_pushdown"],
      [id |-> "incline_db_curl"],
      [id |-> "trap_bar_deadlift"],
      [id |-> "seated_hamstring_curl"],
      [id |-> "weighted_pull_ups"],
      [id |-> "db_flat_bench"],
      [id |-> "rear_delt_fly"],
      [id |-> "face_pull"],
      [id |-> "overhead_triceps_extension"],
      [id |-> "hammer_curl"],
      [id |-> "dips"],
      [id |-> "straight_arm_pulldown"],
      [id |-> "lateral_raise"],
      [id |-> "hip_abduction"],
      [id |-> "glute_kickback"],
      [id |-> "pallof_press"],
      [id |-> "cable_rotation"]>>

SESSIONS ==
    <<[id |-> "session_a", name |-> "Session A", lifts |->
      <<[kind |-> "fixed", liftId |-> "box_jumps",
          rx |-> <<"4", "-", "6", " ", "x", " ", "2", "-", "3">>],
        [kind |-> "fixed", liftId |-> "barbell_bench_press",
          rx |-> <<"a", "l", "t", ":", " ", "3", "x", "5", ",", " ", "4", "x", "5", "-", "6">>],
        [kind |-> "fixed", liftId |-> "leg_press",
          rx |-> <<"2", "-", "3", " ", "x", " ", "8", "-", "1", "0">>],
        [kind |-> "choose", choose |->
          <<[liftId |-> "db_incline_press", rx |-> <<"3", "-", "4", " ", "x", " ", "8", "-", "1", "2">>],
            [liftId |-> "cable_fly", rx |-> <<"3", " ", "x", " ", "1", "2", "-", "1", "5">>]>>],
        [kind |-> "fixed", liftId |-> "row",
          rx |-> <<"3", "-", "4", " ", "x", " ", "8", "-", "1", "2">>],
        [kind |-> "fixed", liftId |-> "triceps_pushdown",
          rx |-> <<"2", "-", "4", " ", "x", " ", "1", "0", "-", "1", "5">>],
        [kind |-> "fixed", liftId |-> "incline_db_curl",
          rx |-> <<"2", "-", "4", " ", "x", " ", "1", "0", "-", "1", "5">>]>>],
      [id |-> "session_b", name |-> "Session B", lifts |->
      <<[kind |-> "fixed", liftId |-> "trap_bar_deadlift",
          rx |-> <<"3", " ", "x", " ", "5">>],
        [kind |-> "fixed", liftId |-> "seated_hamstring_curl",
          rx |-> <<"2", "-", "3", " ", "x", " ", "1", "0", "-", "1", "5">>],
        [kind |-> "fixed", liftId |-> "weighted_pull_ups",
          rx |-> <<"4", "-", "5", " ", "x", " ", "4", "-", "8">>],
        [kind |-> "fixed", liftId |-> "db_flat_bench",
          rx |-> <<"3", "-", "4", " ", "x", " ", "8", "-", "1", "2">>],
        [kind |-> "choose", choose |->
          <<[liftId |-> "rear_delt_fly", rx |-> <<"3", " ", "x", " ", "1", "2", "-", "1", "5">>],
            [liftId |-> "face_pull", rx |-> <<"3", " ", "x", " ", "1", "2", "-", "1", "5">>]>>],
        [kind |-> "fixed", liftId |-> "overhead_triceps_extension",
          rx |-> <<"2", "-", "3", " ", "x", " ", "1", "0", "-", "1", "5">>],
        [kind |-> "fixed", liftId |-> "hammer_curl",
          rx |-> <<"2", "-", "3", " ", "x", " ", "1", "0", "-", "1", "5">>]>>],
      [id |-> "session_c", name |-> "Session C", lifts |->
      <<[kind |-> "fixed", liftId |-> "dips",
          rx |-> <<"3", "-", "4", " ", "x", " ", "6", "-", "1", "0">>],
        [kind |-> "fixed", liftId |-> "straight_arm_pulldown",
          rx |-> <<"3", " ", "x", " ", "1", "2", "-", "1", "5">>],
        [kind |-> "fixed", liftId |-> "lateral_raise",
          rx |-> <<"3", " ", "x", " ", "1", "2", "-", "1", "5">>],
        [kind |-> "fixed", liftId |-> "hip_abduction",
          rx |-> <<"2", "-", "3", " ", "x", " ", "1", "2", "-", "2", "0">>],
        [kind |-> "fixed", liftId |-> "glute_kickback",
          rx |-> <<"2", "-", "3", " ", "x", " ", "1", "2", "-", "1", "5">>],
        [kind |-> "fixed", liftId |-> "pallof_press",
          rx |-> <<"2", "-", "3", " ", "x", " ", "1", "0", "-", "1", "5", "/", "s", "i", "d", "e">>],
        [kind |-> "fixed", liftId |-> "cable_rotation",
          rx |-> <<"3", " ", "x", " ", "5", "-", "8", "/", "s", "i", "d", "e">>]>>]>>

useSessionMode == Len(SESSIONS) > 0

LiftIds == {LIFTS[i].id : i \in 1..Len(LIFTS)}

\* SESSIONS[index] of the source, whose indices start at 0.
SessionAt(index) == SESSIONS[index + 1]

\* SESSIONS.findIndex((s) => s.id === id): the first index, or -1.
FindSessionIndex(id) ==
    LET hits == {i \in 1..Len(SESSIONS) : SESSIONS[i].id = id}
    IN IF hits = {} THEN -1
       ELSE (CHOOSE i \in hits : \A j \in hits : i <= j) - 1

RECURSIVE FlattenSlots(_)
\* The rows renderSessionOverview creates, in order: one per fixed slot and one
\* per choice of a choose-one slot, for the lifts LIFTS knows.
FlattenSlots(items) ==
    IF items = <<>> THEN <<>>
    ELSE LET item == Head(items)
             rows == IF item.kind = "choose"
                     THEN item.choose
                     ELSE <<[liftId |-> item.liftId, rx |-> item.rx]>>
         IN SelectSeq(rows, LAMBDA r : r.liftId \in LiftIds)
            \o FlattenSlots(Tail(items))

\* The rows of every session, computed once.
AllOverviewRows ==
    [index \in 0..(Len(SESSIONS) - 1) |-> FlattenSlots(SessionAt(index).lifts)]

OverviewRows(index) == AllOverviewRows[index]

(***************************************************************************)
(* Time.  An instant is a number of ticks; the local calendar is cut down  *)
(* to MonthsPerYear months of DaysPerMonth days of TicksPerDay ticks.      *)
(***************************************************************************)
TicksPerDay == 2

DaysPerMonth == 2

MonthsPerYear == 2

TicksPerMonth == TicksPerDay * DaysPerMonth

TicksPerYear == TicksPerMonth * MonthsPerYear

\* Date.getFullYear, Date.getMonth (from 0) and Date.getDate (from 1).
GetFullYear(t) == t \div TicksPerYear

GetMonth(t) == (t % TicksPerYear) \div TicksPerMonth

GetDate(t) == ((t % TicksPerMonth) \div TicksPerDay) + 1

\* A start of the month where the start of the day is meant.
StartOfMonth(t) == t - (t % TicksPerMonth)

\* new Date(y, m, d) and setHours(0, 0, 0, 0): local midnight of t's day.
Midnight(t) == t - (t % TicksPerDay)

(***************************************************************************)
(* The entry store: one document per entry, in users/{owner}/entries.      *)
(***************************************************************************)
NoUser == "signed-out"

NoLift == "null"

\* An entry written outside session mode has no session field.
NoSession == "undefined"

\* The date field of an entry whose server timestamp has not been resolved.
NoDate == -1

\* No document (editingEntryId = null); document ids start at 1.
NoEntry == 0

\* !lastSessionId
NoSessionId(id) == id \in {NoSession, ""}

\* Where orderBy('date') and where('date', '>=', ..) place a document: an
\* unresolved server timestamp counts as later than every resolved one.
DateKey(e, horizon) == IF e.date = NoDate THEN horizon ELSE e.date

RECURSIVE OrderByDateAsc(_)
\* orderBy('date') in ascending order.
OrderByDateAsc(docs) ==
    IF docs = {} THEN <<>>
    ELSE LET horizon == 1 + (CHOOSE m \in {0} \cup {d.date : d \in docs} :
                               \A d \in docs : d.date <= m)
             first == CHOOSE e \in docs : \A d \in docs :
                         \/ DateKey(e, horizon) < DateKey(d, horizon)
                         \/ DateKey(d, horizon) = DateKey(e, horizon) /\ e.id <= d.id
         IN <<first>> \o OrderByDateAsc(docs \ {first})

RECURSIVE OrderByDateDesc(_)
\* orderBy('date', 'desc') over a set of documents, as a sequence; documents of
\* one date in descending id order.
OrderByDateDesc(docs) ==
    IF docs = {} THEN <<>>
    ELSE LET horizon == 1 + (CHOOSE m \in {0} \cup {d.date : d \in docs} :
                               \A d \in docs : d.date <= m)
             first == CHOOSE e \in docs : \A d \in docs :
                         \/ DateKey(d, horizon) < DateKey(e, horizon)
                         \/ DateKey(d, horizon) = DateKey(e, horizon) /\ d.id <= e.id
         IN <<first>> \o OrderByDateDesc(docs \ {first})

\* limit(n)
Limit(docs, n) == SubSeq(docs, 1, IF Len(docs) < n THEN Len(docs) ELSE n)

(***************************************************************************)
(* determineCurrentSession (the part after the query has returned)         *)
(***************************************************************************)
\* isToday comparing the instants instead of the calendar fields.
isTodaySameInstant(lastDate, today) == lastDate = today

isToday(lastDate, today) ==
    /\ GetFullYear(lastDate) = GetFullYear(today)
    /\ GetMonth(lastDate) = GetMonth(today)
    /\ GetDate(lastDate) = GetDate(today)

\* AdvanceIndex without the wrap to the first session.
AdvanceIndexNoWrap(lastIndex) == lastIndex + 1

\* AdvanceIndex wrapping one index too late.
AdvanceIndexLateWrap(lastIndex) ==
    IF lastIndex + 1 > Len(SESSIONS) THEN 0 ELSE lastIndex + 1

\* The index that follows lastIndex in the rotation.
AdvanceIndex(lastIndex) == (lastIndex + 1) % Len(SESSIONS)

\* determineFromSnapshot without its two early returns of 0.
determineUnguarded(snapshot, today) ==
    IF snapshot = <<>> THEN 0
    ELSE LET data == snapshot[1]
             lastDate == IF data.date # NoDate THEN data.date ELSE today
             lastIndex == FindSessionIndex(data.session)
         IN IF isToday(lastDate, today) THEN lastIndex
            ELSE AdvanceIndex(lastIndex)

\* determineFromSnapshot reading a missing date as the calendar's first instant.
determineUndatedAsOld(snapshot, today) ==
    IF snapshot = <<>> THEN 0
    ELSE LET data == snapshot[1]
             lastDate == IF data.date # NoDate THEN data.date ELSE 0
             lastSessionId == data.session
             lastIndex == FindSessionIndex(lastSessionId)
         IN IF NoSessionId(lastSessionId) THEN 0
            ELSE IF lastIndex = -1 THEN 0
            ELSE IF isToday(lastDate, today) THEN lastIndex
            ELSE AdvanceIndex(lastIndex)

\* snapshot: the documents the query returned; today: the instant of new Date().
determineFromSnapshot(snapshot, today) ==
    IF snapshot = <<>> THEN 0
    ELSE LET data == snapshot[1]
             lastDate == IF data.date # NoDate THEN data.date ELSE today
             lastSessionId == data.session
             lastIndex == FindSessionIndex(lastSessionId)
         IN IF NoSessionId(lastSessionId) THEN 0
            ELSE IF lastIndex = -1 THEN 0
            ELSE IF isToday(lastDate, today) THEN lastIndex
            ELSE AdvanceIndex(lastIndex)

(***************************************************************************)
(* State                                                                   *)
(***************************************************************************)
VARIABLES
    currentUser,          \* the signed-in user's uid, or NoUser
    editingEntryId,       \* the id of the entry under edit, or NoEntry
    currentSessionIndex,  \* index into SESSIONS, from 0
    currentLiftId,        \* the selected lift, or NoLift
    currentRx,            \* the selected slot's rx, or Null
    todayEntries,         \* the completion set: lift ids
    tabsRendered,         \* the session tabs exist
    overview,             \* #session-overview: hidden, session shown, rows marked done
    liftDetailHidden,     \* #lift-detail carries class hidden
    setGroups,            \* the form's set-group rows: fields sets, reps, weight
    notesInput,           \* the notes field
    saveBtn,              \* the save button: disabled, text
    historyList,          \* #history-list: status, and the entries listed
    recentEl,             \* #recent-sessions: the items listed
    entries,              \* the store: the documents of every user
    nextId,               \* the id the store gives the next document
    now,                  \* the current instant
    authFired,            \* onAuthStateChanged has run at least once
    pending,              \* the store requests in flight: a bag of awaits
    lastCall,             \* what the last step did and returned
    rxArg,                \* the argument of a direct parseRx call
    rxResult,              \* what that call returned
    rxShape,              \* ghost: how that argument was written
    clicks                \* ghost: the events made so far

appVars == <<currentUser, editingEntryId, currentSessionIndex, currentLiftId,
             currentRx, todayEntries>>

formVars == <<setGroups, notesInput, saveBtn, historyList>>

domVars == <<tabsRendered, overview, liftDetailHidden, recentEl>>

storeVars == <<entries, nextId>>

rxVars == <<rxArg, rxResult, rxShape>>

vars == <<appVars, formVars, domVars, storeVars, now, authFired, pending,
          lastCall, rxVars, clicks>>

\* The most events (clicks, keystrokes, auth changes, ticks) the model's user
\* and environment make in one run.
MaxClicks == 5

\* A step the user or the environment takes, and a step that is the return of
\* a request the app awaits.
UserEvent == clicks < MaxClicks /\ clicks' = clicks + 1
Completion == UNCHANGED clicks

\* The most requests the model keeps in flight at once.
MaxPending == 3

\* The last instant the model's clock reaches.
MaxNow == 3

Users == {"u1", "u2"}

UserDocs(uid) == {e \in entries : e.owner = uid}

\* No argument has been written.
NoShape == [kind |-> "none", value |-> Undefined]

NotCalled == [called |-> FALSE]

EmptyRow == [sets |-> <<>>, reps |-> <<>>, weight |-> <<>>]

\* The page as loaded, before the first auth callback: the let-declarations of
\* app.js, nothing rendered yet.
InitApp ==
    /\ currentUser = NoUser
    /\ editingEntryId = NoEntry
    /\ currentSessionIndex = 0
    /\ currentLiftId = NoLift
    /\ currentRx = Null
    /\ todayEntries = {}
    /\ tabsRendered = FALSE
    /\ overview = [hidden |-> TRUE, session |-> -1, done |-> {}]
    /\ liftDetailHidden = TRUE
    /\ setGroups = <<>>
    /\ notesInput = <<>>
    /\ saveBtn = [disabled |-> FALSE, text |-> "Save"]
    /\ historyList = [status |-> "blank", items |-> <<>>]
    /\ recentEl = <<>>
    /\ authFired = FALSE
    /\ pending = EmptyBag
    /\ lastCall = [fn |-> "load"]

(***************************************************************************)
(* Session mode: initApp, determineCurrentSession, loadRecentSessions,     *)
(* renderSessionTabs, loadSession, loadTodayEntries                        *)
(***************************************************************************)
Await(task) == SetToBag({task})

\* The lifts of the rows of session index that createOverviewRow marks done.
DoneRows(index, completed) ==
    LET rows == OverviewRows(index)
    IN {rows[k].liftId : k \in 1..Len(rows)} \cap completed

\* renderSessionOverview(SESSIONS[index]), the overview then shown.
ShownOverview(index, completed) ==
    [hidden |-> FALSE, session |-> index, done |-> DoneRows(index, completed)]

\* loadSession(index) up to its await, with rest the other requests in flight.
\* Signed out, the query throws before it is issued: loadTodayEntries catches,
\* empties the completion set, and the overview is rendered at once.
LoadSession(index, rest) ==
    /\ currentLiftId' = NoLift
    /\ currentRx' = Null
    /\ liftDetailHidden' = TRUE
    /\ IF currentUser' = NoUser
       THEN /\ todayEntries' = {}
            /\ overview' = ShownOverview(index, {})
            /\ pending' = rest
       ELSE /\ UNCHANGED <<todayEntries, overview>>
            /\ pending' = rest (+) Await([op |-> "today", uid |-> currentUser',
                                          index |-> index, since |-> Midnight(now)])

\* loadRecentSessions() up to its await: the requests it leaves in flight.
RecentAwait == 
    IF currentUser = NoUser THEN EmptyBag
    ELSE Await([op |-> "recent", uid |-> currentUser])

\* initApp after determineCurrentSession has returned index.
InitAppResume(index, rest) ==
    /\ currentSessionIndex' = index
    /\ tabsRendered' = TRUE
    /\ recentEl' = <<>>
    /\ UNCHANGED currentUser
    /\ LoadSession(index, rest (+) RecentAwait)

\* DetermineReturn with the failure thrown on to initApp, which then stops.
DetermineReturnRethrow(t, ok) ==
    /\ BagIn(t, pending)
    /\ t.op = "determine"
    /\ BagCardinality(pending) < MaxPending
    /\ LET snapshot == Limit(OrderByDateDesc(UserDocs(t.uid)), 1)
           index == determineFromSnapshot(snapshot, now)
       IN /\ IF ok
             THEN InitAppResume(index, pending (-) Await(t))
             ELSE /\ pending' = pending (-) Await(t)
                  /\ UNCHANGED <<appVars, domVars>>
          /\ lastCall' = [fn |-> "determineCurrentSession", uid |-> t.uid,
                          value |-> IF ok THEN index ELSE 0, logged |-> ~ok]
    /\ UNCHANGED <<editingEntryId, formVars, storeVars, now, authFired, rxVars>>

\* The query of determineCurrentSession returns (ok) or fails; initApp resumes.
DetermineReturn(t, ok) ==
    /\ BagIn(t, pending)
    /\ t.op = "determine"
    /\ BagCardinality(pending) < MaxPending
    /\ LET snapshot == Limit(OrderByDateDesc(UserDocs(t.uid)), 1)
           index == IF ok THEN determineFromSnapshot(snapshot, now) ELSE 0
       IN /\ InitAppResume(index, pending (-) Await(t))
          /\ lastCall' = [fn |-> "determineCurrentSession", uid |-> t.uid,
                          value |-> index, logged |-> ~ok]
    /\ UNCHANGED <<editingEntryId, formVars, storeVars, now, authFired, rxVars>>

\* TodayReturn keeping, when the query fails, the set of the load before.
TodayReturnStale(t, ok) ==
    /\ BagIn(t, pending)
    /\ t.op = "today"
    /\ todayEntries' =
          IF ok THEN {e.lift : e \in {d \in UserDocs(t.uid) :
                                         d.date = NoDate \/ d.date >= t.since}}
          ELSE todayEntries
    /\ overview' = ShownOverview(t.index, todayEntries')
    /\ pending' = pending (-) Await(t)
    /\ lastCall' = [fn |-> "loadTodayEntries", uid |-> t.uid, index |-> t.index,
                    logged |-> ~ok]
    /\ UNCHANGED <<currentUser, editingEntryId, currentSessionIndex, currentLiftId,
                   currentRx, formVars, tabsRendered, liftDetailHidden, recentEl,
                   storeVars, now, authFired, rxVars>>

\* The query of loadTodayEntries returns or fails; loadSession resumes.
TodayReturn(t, ok) ==
    /\ BagIn(t, pending)
    /\ t.op = "today"
    /\ todayEntries' =
          IF ok THEN {e.lift : e \in {d \in UserDocs(t.uid) :
                                         d.date = NoDate \/ d.date >= t.since}}
          ELSE {}
    /\ overview' = ShownOverview(t.index, todayEntries')
    /\ pending' = pending (-) Await(t)
    /\ lastCall' = [fn |-> "loadTodayEntries", uid |-> t.uid, index |-> t.index,
                    logged |-> ~ok]
    /\ UNCHANGED <<currentUser, editingEntryId, currentSessionIndex, currentLiftId,
                   currentRx, formVars, tabsRendered, liftDetailHidden, recentEl,
                   storeVars, now, authFired, rxVars>>

\* The documents limit(50) keeps.
RecentLimit == 50

\* The most items the recent-sessions list is given.
RecentShown == 3

RECURSIVE SeenSessionsAll(_, _)
\* SeenSessions without the test that the session is not yet in the Map.
SeenSessionsAll(docs, seen) ==
    IF docs = <<>> THEN seen
    ELSE LET data == Head(docs)
         IN SeenSessionsAll(Tail(docs),
                            IF ~NoSessionId(data.session) /\ data.date # NoDate
                            THEN Append(seen, [session |-> data.session,
                                               date |-> data.date])
                            ELSE seen)

RECURSIVE SeenSessions(_, _)
\* The Map seen of loadRecentSessions, in insertion order: the first document of
\* each session id, among the documents with a session and a resolved date.
SeenSessions(docs, seen) ==
    IF docs = <<>> THEN seen
    ELSE LET data == Head(docs)
             fresh == /\ ~NoSessionId(data.session)
                      /\ \A k \in 1..Len(seen) : seen[k].session # data.session
                      /\ data.date # NoDate
         IN SeenSessions(Tail(docs),
                         IF fresh
                         THEN Append(seen, [session |-> data.session, date |-> data.date])
                         ELSE seen)

\* The items loadRecentSessions appends: session and its age in days.
RecentItems(docs, today) ==
    LET seen == SeenSessions(docs, <<>>)
        first == Limit(seen, RecentShown)
        known == SelectSeq(first, LAMBDA s : FindSessionIndex(s.session) # -1)
    IN [k \in 1..Len(known) |->
          [session |-> known[k].session,
           diffDays |-> (Midnight(today) - Midnight(known[k].date)) \div TicksPerDay]]

\* The query of loadRecentSessions returns or fails.
RecentReturn(t, ok) ==
    /\ BagIn(t, pending)
    /\ t.op = "recent"
    /\ recentEl' = IF ok
                   THEN recentEl \o RecentItems(Limit(OrderByDateDesc(UserDocs(t.uid)),
                                                      RecentLimit), now)
                   ELSE recentEl
    /\ pending' = pending (-) Await(t)
    /\ lastCall' = [fn |-> "loadRecentSessions", uid |-> t.uid, logged |-> ~ok]
    /\ UNCHANGED <<appVars, formVars, tabsRendered, overview, liftDetailHidden,
                   storeVars, now, authFired, rxVars>>

\* A click on the tab of session i.
TabClick(i) ==
    /\ tabsRendered
    /\ BagCardinality(pending) < MaxPending
    /\ currentSessionIndex' = i
    /\ UNCHANGED currentUser
    /\ LoadSession(i, pending)
    /\ lastCall' = [fn |-> "tabClick", index |-> i]
    /\ UNCHANGED <<editingEntryId, formVars, tabsRendered, recentEl, storeVars,
                   now, authFired, rxVars>>

(***************************************************************************)
(* Auth: onAuthStateChanged, resetAll, initViewOnly                        *)
(***************************************************************************)
\* onAuthStateChanged(user) with a user: initApp runs up to its await.
SignedIn(user) ==
    /\ currentUser = NoUser
    /\ BagCardinality(pending) < MaxPending
    /\ currentUser' = user
    /\ authFired' = TRUE
    /\ pending' = pending (+) Await([op |-> "determine", uid |-> user])
    /\ lastCall' = [fn |-> "signedIn", uid |-> user]
    /\ UNCHANGED <<editingEntryId, currentSessionIndex, currentLiftId, currentRx,
                   todayEntries, formVars, domVars, storeVars, now, rxVars>>

\* onAuthStateChanged(null): resetAll, then initViewOnly.
SignedOut ==
    /\ currentUser # NoUser \/ ~authFired
    /\ currentUser' = NoUser
    /\ authFired' = TRUE
    /\ currentLiftId' = NoLift
    /\ currentRx' = Null
    /\ liftDetailHidden' = TRUE
    /\ setGroups' = <<>>
    /\ notesInput' = <<>>
    /\ currentSessionIndex' = 0
    /\ tabsRendered' = TRUE
    /\ overview' = ShownOverview(0, todayEntries)
    /\ lastCall' = [fn |-> "signedOut"]
    /\ UNCHANGED <<editingEntryId, todayEntries, saveBtn, historyList, recentEl,
                   storeVars, now, pending, rxVars>>

\* Time passes.
Tick ==
    /\ now < MaxNow
    /\ now' = now + 1
    /\ lastCall' = [fn |-> "tick"]
    /\ UNCHANGED <<appVars, formVars, domVars, storeVars, authFired, pending, rxVars>>

(***************************************************************************)
(* Rotation: the app activated over the histories a user can have left     *)
(***************************************************************************)
\* A session id no catalogue session has (the catalogue changed since).
RetiredSession == "session_x"

SomeSets == <<[sets |-> 3, reps |-> 5, weight |-> 100]>>

\* The instant the app is activated at: the last of the calendar's second year.
RotNow == 2 * TicksPerYear - 1

\* The dates tried for the latest entry, as seen from instant t: t itself,
\* earlier on t's day, the day before, the same day of the month before, the
\* same day and month of the year before, the calendar's first instant, and
\* a timestamp not yet resolved.
RotDates(t) ==
    {t, Midnight(t), t - TicksPerDay, t - TicksPerMonth, t - TicksPerYear, 0,
     NoDate}

\* The latest entry of user u1: any session field, any of these dates.
RotLatest(t) ==
    {[id |-> 2, owner |-> "u1", lift |-> "box_jumps", date |-> d,
      sets |-> SomeSets, notes |-> <<>>, session |-> s] :
        d \in RotDates(t),
        s \in {NoSession, "", RetiredSession} \cup
              {SESSIONS[i].id : i \in 1..Len(SESSIONS)}}

\* What else the store may hold: an older entry of u1, an entry of another user.
RotOlder ==
    [id |-> 1, owner |-> "u1", lift |-> "dips", date |-> 0,
     sets |-> SomeSets, notes |-> <<>>, session |-> "session_c"]

RotForeign(t) ==
    [id |-> 1, owner |-> "u2", lift |-> "dips", date |-> t,
     sets |-> SomeSets, notes |-> <<>>, session |-> "session_b"]

RotHistories(t) ==
    {{}} \cup {{e} : e \in RotLatest(t)}
         \cup {{e, RotOlder} : e \in {l \in RotLatest(t) : l.date # 0}}
         \cup {{e, RotForeign(t)} : e \in RotLatest(t)}

InitRot ==
    /\ InitApp
    /\ now = RotNow
    /\ entries \in RotHistories(now)
    /\ nextId = 3
    /\ rxArg = Undefined
    /\ rxResult = NotCalled
    /\ rxShape = NoShape
    /\ clicks = 0

\* The rotation is explored without a cap on the events.
NextRot ==
    \/ SignedIn("u1") /\ Completion
    \/ SignedOut /\ Completion
    \/ \E t \in BagToSet(pending), ok \in BOOLEAN :
          DetermineReturn(t, ok) /\ Completion
    \/ \E t \in BagToSet(pending), ok \in BOOLEAN :
          TodayReturn(t, ok) /\ Completion
    \/ \E t \in BagToSet(pending), ok \in BOOLEAN :
          RecentReturn(t, ok) /\ Completion
    \/ \E i \in 0..(Len(SESSIONS) - 1) : TabClick(i) /\ Completion

SpecRot == InitRot /\ [][NextRot]_vars

(***************************************************************************)
(* Rotation properties                                                     *)
(***************************************************************************)
\* The most recent entry of a user, read off the store: the one entry whose
\* timestamp is still unresolved, or else the entry dated after all others.
IsMostRecent(e, uid) ==
    /\ e \in UserDocs(uid)
    /\ \A d \in UserDocs(uid) \ {e} :
          /\ d.date # NoDate
          /\ e.date # NoDate => d.date < e.date

CalendarDay(t) == <<GetFullYear(t), GetMonth(t), GetDate(t)>>

\* The session query has just returned successfully for this user.
Determined == lastCall.fn = "determineCurrentSession" /\ ~lastCall.logged

\* The entry is dated, and its session is session i of the catalogue.
DatedInSession(e, i) ==
    /\ e.date # NoDate
    /\ i \in 1..Len(SESSIONS)
    /\ e.session = SESSIONS[i].id

\* C1: when the most recent entry is of catalogue session i (from 0) and dated
\* on another calendar day than today, determineCurrentSession returns
\* (i + 1) mod the catalogue's length, so 0 after the last session.
C1_AdvanceOnAnotherDay ==
    Determined =>
      \A e \in UserDocs(lastCall.uid), i \in 1..Len(SESSIONS) :
        (/\ IsMostRecent(e, lastCall.uid)
         /\ DatedInSession(e, i)
         /\ CalendarDay(e.date) # CalendarDay(now))
        => /\ lastCall.value = (IF i = Len(SESSIONS) THEN 0 ELSE i)
           /\ currentSessionIndex = lastCall.value

\* The rotation wrapped: the last session, left on an earlier day, gives 0.
C1_Witness ==
    /\ Determined
    /\ \E e \in UserDocs(lastCall.uid) :
          /\ IsMostRecent(e, lastCall.uid)
          /\ DatedInSession(e, Len(SESSIONS))
          /\ CalendarDay(e.date) # CalendarDay(now)
    /\ lastCall.value = 0

\* C2: when the most recent entry is of catalogue session i and dated today
\* (same year, month and day of month), determineCurrentSession returns i: an
\* activation on the day of the last entry resumes, however often repeated.
C2_ResumeToday ==
    Determined =>
      \A e \in UserDocs(lastCall.uid), i \in 1..Len(SESSIONS) :
        (/\ IsMostRecent(e, lastCall.uid)
         /\ DatedInSession(e, i)
         /\ CalendarDay(e.date) = CalendarDay(now))
        => /\ lastCall.value = i - 1
           /\ currentSessionIndex = lastCall.value

\* Resumed on session 1 from an entry made earlier on the same day.
C2_Witness ==
    /\ Determined
    /\ \E e \in UserDocs(lastCall.uid) :
          /\ IsMostRecent(e, lastCall.uid)
          /\ DatedInSession(e, 2)
          /\ e.date < now
          /\ CalendarDay(e.date) = CalendarDay(now)
    /\ lastCall.value = 1

\* The entry has no session id, or one that no catalogue session has.
Unrecognized(e) ==
    \/ NoSessionId(e.session)
    \/ \A i \in 1..Len(SESSIONS) : SESSIONS[i].id # e.session

\* C3: determineCurrentSession returns 0 when the user has no entry, or the
\* most recent entry has no sessionId, or a sessionId of no catalogue session.
C3_DefaultsToFirst ==
    (/\ Determined
     /\ \/ UserDocs(lastCall.uid) = {}
        \/ \E e \in UserDocs(lastCall.uid) :
              IsMostRecent(e, lastCall.uid) /\ Unrecognized(e))
    => lastCall.value = 0 /\ currentSessionIndex = 0

\* A retired session id on today's most recent entry gave index 0.
C3_Witness ==
    /\ Determined
    /\ \E e \in UserDocs(lastCall.uid) :
          /\ IsMostRecent(e, lastCall.uid)
          /\ e.session = RetiredSession
          /\ e.date # NoDate
          /\ CalendarDay(e.date) = CalendarDay(now)
    /\ lastCall.value = 0

\* initApp has gone on to loadSession(index): the overview of that session is
\* shown, or is awaiting the current user's entries of today.
SessionLoading(index) ==
    IF currentUser = NoUser
    THEN overview = ShownOverview(index, {})
    ELSE BagIn([op |-> "today", uid |-> currentUser, index |-> index,
                since |-> Midnight(now)], pending)

\* C4: a failed session query, also one failed after a sign-out, is logged and
\* gives index 0; initApp carries on, renders the tabs and loads session 0,
\* and whenever the load of a session returns its overview is shown.
C4_LookupFailureDefaults ==
    /\ (lastCall.fn = "determineCurrentSession" /\ lastCall.logged)
       => /\ lastCall.value = 0
          /\ currentSessionIndex = 0
          /\ tabsRendered
          /\ SessionLoading(0)
    /\ lastCall.fn = "loadTodayEntries"
       => ~overview.hidden /\ overview.session = lastCall.index

\* The query failed after the user had signed out, and session 0 is shown.
C4_Witness ==
    /\ lastCall.fn = "determineCurrentSession"
    /\ lastCall.logged
    /\ currentUser = NoUser
    /\ \E e \in UserDocs(lastCall.uid) : e.session = "session_b"
    /\ overview = ShownOverview(0, {})

(***************************************************************************)
(* The lift detail: selectLift, the set-group form, loadHistory            *)
(***************************************************************************)
\* The first row after resetSetGroups and the auto-fill from rx: sets and reps
\* are filled when parseRx returns a target, and left empty when it returns null.
\* parseRx of the catalogue's rx strings, computed once.
CatalogRx ==
    UNION {{AllOverviewRows[i][k].rx : k \in 1..Len(AllOverviewRows[i])} :
              i \in 0..(Len(SESSIONS) - 1)}

ParsedCatalog == [rx \in CatalogRx |-> parseRx(rx)]

Parsed(rx) == IF rx \in CatalogRx THEN ParsedCatalog[rx] ELSE parseRx(rx)

FilledRow(rx) ==
    LET parsed == Parsed(rx)
    IN IF parsed = ParseNull THEN EmptyRow
       ELSE [sets |-> <<parsed.maxSets>>, reps |-> <<parsed.maxReps>>,
             weight |-> <<>>]

\* The documents limit(5) keeps.
HistoryLimit == 5

\* loadHistory(liftId) up to its await, called with rest the other requests in
\* flight: signed out it returns at once and leaves the list as it is. The
\* request remembers its caller (cont) and, a ghost, the id of the entry that
\* caller has just created (saved, or NoEntry).
LoadHistoryStart(liftId, cont, saved, rest) ==
    IF currentUser = NoUser
    THEN /\ pending' = rest
         /\ UNCHANGED historyList
    ELSE /\ pending' = rest (+) Await([op |-> "history", uid |-> currentUser,
                                       liftId |-> liftId, cont |-> cont,
                                       saved |-> saved])
         /\ historyList' = [status |-> "loading", items |-> <<>>]

\* selectLift(liftId, rx): a click on an overview row.
SelectLift(liftId, rx) ==
    /\ BagCardinality(pending) < MaxPending
    /\ currentLiftId' = liftId
    /\ currentRx' = rx
    /\ liftDetailHidden' = FALSE
    /\ setGroups' = <<FilledRow(rx)>>
    /\ notesInput' = <<>>
    /\ IF currentUser # NoUser
       THEN LoadHistoryStart(liftId, "select", NoEntry, pending)
       ELSE /\ historyList' = [status |-> "blank", items |-> <<>>]
            /\ UNCHANGED pending
    /\ lastCall' = [fn |-> "selectLift", liftId |-> liftId]
    /\ UNCHANGED <<currentUser, editingEntryId, currentSessionIndex, todayEntries,
                   saveBtn, tabsRendered, overview, recentEl, storeVars, now,
                   authFired, rxVars>>

\* The weight auto-fill of loadHistory: the first set group of the first
\* listed entry that has one goes into the first row's weight field, if the
\* form has a row and that field is empty.
RECURSIVE LastWeight(_)
LastWeight(docs) ==
    IF docs = <<>> THEN <<>>
    ELSE IF Len(Head(docs).sets) > 0 THEN <<Head(docs).sets[1].weight>>
    ELSE LastWeight(Tail(docs))

\* WeightFilled without the test that the field is empty.
WeightFilledAlways(rows, docs) ==
    IF LastWeight(docs) # <<>> /\ rows # <<>>
    THEN [rows EXCEPT ![1].weight = LastWeight(docs)]
    ELSE rows

WeightFilled(rows, docs) ==
    IF LastWeight(docs) # <<>> /\ rows # <<>> /\ rows[1].weight = <<>>
    THEN [rows EXCEPT ![1].weight = LastWeight(docs)]
    ELSE rows

\* The re-applied auto-fill from rx that follows loadHistory in the save
\* handler; finally the button is enabled and labelled again.
RxRefilled(rows) ==
    IF ~Falsy(currentRx) /\ Parsed(currentRx) # ParseNull /\ rows # <<>>
    THEN [rows EXCEPT ![1].sets = <<Parsed(currentRx).maxSets>>,
                      ![1].reps = <<Parsed(currentRx).maxReps>>]
    ELSE rows

\* The re-applied auto-fill finds no row to fill: a TypeError, which the save
\* handler's catch reports as a failed save.
RefillThrows ==
    ~Falsy(currentRx) /\ Parsed(currentRx) # ParseNull /\ setGroups = <<>>

ButtonReady(editing) ==
    [disabled |-> FALSE, text |-> IF editing # NoEntry THEN "Update" ELSE "Save"]

\* HistoryReturn without the save handler's finally after a failed reload.
HistoryReturnNoFinally(t, ok) ==
    /\ BagIn(t, pending)
    /\ t.op = "history"
    /\ LET docs == Limit(OrderByDateDesc({d \in UserDocs(t.uid) : d.lift = t.liftId}),
                         HistoryLimit)
           rows == IF ok THEN WeightFilled(setGroups, docs) ELSE setGroups
       IN /\ historyList' =
                IF ~ok THEN [status |-> "failed", items |-> <<>>]
                ELSE IF docs = <<>> THEN [status |-> "empty", items |-> <<>>]
                ELSE [status |-> "list", items |-> docs]
          /\ IF t.cont = "save" /\ ok
             THEN /\ setGroups' = RxRefilled(rows)
                  /\ saveBtn' = ButtonReady(editingEntryId)
             ELSE /\ setGroups' = rows
                  /\ UNCHANGED saveBtn
    /\ pending' = pending (-) Await(t)
    /\ lastCall' = [fn |-> "loadHistory", uid |-> t.uid, liftId |-> t.liftId,
                    cont |-> t.cont, saved |-> t.saved, logged |-> ~ok,
                    alert |-> t.cont = "save" /\ RefillThrows]
    /\ UNCHANGED <<appVars, notesInput, domVars, storeVars, now, authFired, rxVars>>

\* The query of loadHistory returns or fails; its caller resumes.
HistoryReturn(t, ok) ==
    /\ BagIn(t, pending)
    /\ t.op = "history"
    /\ LET docs == Limit(OrderByDateDesc({d \in UserDocs(t.uid) : d.lift = t.liftId}),
                         HistoryLimit)
           rows == IF ok THEN WeightFilled(setGroups, docs) ELSE setGroups
       IN /\ historyList' =
                IF ~ok THEN [status |-> "failed", items |-> <<>>]
                ELSE IF docs = <<>> THEN [status |-> "empty", items |-> <<>>]
                ELSE [status |-> "list", items |-> docs]
          /\ IF t.cont = "save"
             THEN /\ setGroups' = RxRefilled(rows)
                  /\ saveBtn' = ButtonReady(editingEntryId)
             ELSE /\ setGroups' = rows
                  /\ UNCHANGED saveBtn
    /\ pending' = pending (-) Await(t)
    /\ lastCall' = [fn |-> "loadHistory", uid |-> t.uid, liftId |-> t.liftId,
                    cont |-> t.cont, saved |-> t.saved, logged |-> ~ok,
                    alert |-> t.cont = "save" /\ RefillThrows]
    /\ UNCHANGED <<appVars, notesInput, domVars, storeVars, now, authFired, rxVars>>

\* The most set-group rows the model's user adds.
MaxGroups == 2

\* What the model's user types into a row, and into the notes field.
RowInputs ==
    {[sets |-> <<2>>, reps |-> <<5>>, weight |-> <<60>>],
     [sets |-> <<0>>, reps |-> <<5>>, weight |-> <<60>>],
     [sets |-> <<-1>>, reps |-> <<5>>, weight |-> <<60>>],
     [sets |-> <<2>>, reps |-> <<5>>, weight |-> <<>>]}

NoteInputs == {<<"o", "k", " ">>}

\* The user fills in row k.
TypeRow(k, row) ==
    /\ ~liftDetailHidden
    /\ k \in 1..Len(setGroups)
    /\ setGroups' = [setGroups EXCEPT ![k] = row]
    /\ lastCall' = [fn |-> "type"]
    /\ UNCHANGED <<appVars, notesInput, saveBtn, historyList, domVars, storeVars,
                   now, authFired, pending, rxVars>>

TypeNotes(text) ==
    /\ ~liftDetailHidden
    /\ notesInput' = text
    /\ lastCall' = [fn |-> "type"]
    /\ UNCHANGED <<appVars, setGroups, saveBtn, historyList, domVars, storeVars,
                   now, authFired, pending, rxVars>>

\* A click on "add group".
AddGroup ==
    /\ ~liftDetailHidden
    /\ Len(setGroups) < MaxGroups
    /\ setGroups' = Append(setGroups, EmptyRow)
    /\ lastCall' = [fn |-> "addGroup"]
    /\ UNCHANGED <<appVars, notesInput, saveBtn, historyList, domVars, storeVars,
                   now, authFired, pending, rxVars>>

\* A click on the remove button of row k: the last row left stays.
RemoveGroup(k) ==
    /\ ~liftDetailHidden
    /\ k \in 1..Len(setGroups)
    /\ setGroups' = IF Len(setGroups) > 1
                    THEN SubSeq(setGroups, 1, k - 1)
                         \o SubSeq(setGroups, k + 1, Len(setGroups))
                    ELSE setGroups
    /\ lastCall' = [fn |-> "removeGroup"]
    /\ UNCHANGED <<appVars, notesInput, saveBtn, historyList, domVars, storeVars,
                   now, authFired, pending, rxVars>>

\* startEdit(docId, data): a click on the Edit button of a listed entry.
StartEdit(doc) ==
    /\ ~liftDetailHidden
    /\ editingEntryId' = doc.id
    /\ setGroups' = [k \in 1..Len(doc.sets) |->
                       [sets |-> <<doc.sets[k].sets>>, reps |-> <<doc.sets[k].reps>>,
                        weight |-> <<doc.sets[k].weight>>]]
    /\ notesInput' = doc.notes
    /\ saveBtn' = [saveBtn EXCEPT !.text = "Update"]
    /\ lastCall' = [fn |-> "startEdit", id |-> doc.id]
    /\ UNCHANGED <<currentUser, currentSessionIndex, currentLiftId, currentRx,
                   todayEntries, historyList, domVars, storeVars, now, authFired,
                   pending, rxVars>>

\* A click on "cancel edit", shown while an entry is under edit.
CancelEdit ==
    /\ ~liftDetailHidden
    /\ editingEntryId # NoEntry
    /\ editingEntryId' = NoEntry
    /\ saveBtn' = [saveBtn EXCEPT !.text = "Save"]
    /\ setGroups' = RxRefilled(<<EmptyRow>>)
    /\ notesInput' = <<>>
    /\ lastCall' = [fn |-> "cancelEdit"]
    /\ UNCHANGED <<currentUser, currentSessionIndex, currentLiftId, currentRx,
                   todayEntries, historyList, domVars, storeVars, now, authFired,
                   pending, rxVars>>

(***************************************************************************)
(* Save: the click handler of the save button                              *)
(***************************************************************************)
\* A row passes validation: parseInt of sets and of reps is neither NaN nor 0,
\* and parseFloat of weight is not NaN.
ValidRow(row) ==
    /\ row.sets # <<>> /\ row.sets[1] # 0
    /\ row.reps # <<>> /\ row.reps[1] # 0
    /\ row.weight # <<>>

\* The groups pushed from the form's rows.
GroupsOf(rows) ==
    [k \in 1..Len(rows) |->
       [sets |-> rows[k].sets[1], reps |-> rows[k].reps[1],
        weight |-> rows[k].weight[1]]]

FormValid == setGroups # <<>> /\ \A k \in 1..Len(setGroups) : ValidRow(setGroups[k])

\* A click on save with no user or no lift: the handler returns at once.
SaveIgnored ==
    /\ ~saveBtn.disabled
    /\ currentUser = NoUser \/ currentLiftId = NoLift
    /\ lastCall' = [fn |-> "save", outcome |-> "ignored", alert |-> FALSE]
    /\ UNCHANGED <<appVars, formVars, domVars, storeVars, now, authFired, pending,
                   rxVars>>

\* SaveInvalid writing the rows that pass validation instead of refusing.
SaveInvalidPartial ==
    /\ ~saveBtn.disabled
    /\ currentUser # NoUser /\ currentLiftId # NoLift
    /\ ~FormValid
    /\ BagCardinality(pending) < MaxPending
    /\ saveBtn' = [disabled |-> TRUE, text |-> "Saving..."]
    /\ pending' = pending (+) Await(
          [op |-> "create", uid |-> currentUser,
           entry |-> [lift |-> currentLiftId,
                      sets |-> GroupsOf(SelectSeq(setGroups, ValidRow)),
                      notes |-> Trim(notesInput),
                      session |-> SessionAt(currentSessionIndex).id]])
    /\ lastCall' = [fn |-> "save", outcome |-> "issued", alert |-> FALSE]
    /\ UNCHANGED <<appVars, setGroups, notesInput, historyList, domVars, storeVars,
                   now, authFired, rxVars>>

\* A click on save with a row that fails validation, or with no row: an alert.
SaveInvalid ==
    /\ ~saveBtn.disabled
    /\ currentUser # NoUser /\ currentLiftId # NoLift
    /\ ~FormValid
    /\ lastCall' = [fn |-> "save", outcome |-> "invalid", alert |-> TRUE]
    /\ UNCHANGED <<appVars, formVars, domVars, storeVars, now, authFired, pending,
                   rxVars>>

\* NewEntry tagged with the catalogue's first session whatever the tab.
NewEntryFirstSession ==
    [lift |-> currentLiftId, sets |-> GroupsOf(setGroups),
     notes |-> Trim(notesInput), session |-> SESSIONS[1].id]

\* The document a create is issued with: the session tag is that of the tab
\* current at the click.
NewEntry ==
    [lift |-> currentLiftId, sets |-> GroupsOf(setGroups),
     notes |-> Trim(notesInput),
     session |-> IF useSessionMode THEN SessionAt(currentSessionIndex).id
                 ELSE NoSession]

\* SaveClick relabelling the button without disabling it.
SaveClickEnabled ==
    /\ ~saveBtn.disabled
    /\ currentUser # NoUser /\ currentLiftId # NoLift
    /\ FormValid
    /\ BagCardinality(pending) < MaxPending
    /\ saveBtn' = [disabled |-> FALSE,
                   text |-> IF editingEntryId # NoEntry THEN "Updating..."
                            ELSE "Saving..."]
    /\ pending' = pending (+) Await(
          IF editingEntryId # NoEntry
          THEN [op |-> "update", uid |-> currentUser, id |-> editingEntryId,
                sets |-> GroupsOf(setGroups), notes |-> Trim(notesInput)]
          ELSE [op |-> "create", uid |-> currentUser, entry |-> NewEntry])
    /\ lastCall' = [fn |-> "save", outcome |-> "issued", alert |-> FALSE]
    /\ UNCHANGED <<appVars, setGroups, notesInput, historyList, domVars, storeVars,
                   now, authFired, rxVars>>

\* A click on save with a valid form: the button is disabled and the write is
\* issued, an update of the entry under edit or else a create.
SaveClick ==
    /\ ~saveBtn.disabled
    /\ currentUser # NoUser /\ currentLiftId # NoLift
    /\ FormValid
    /\ BagCardinality(pending) < MaxPending
    /\ saveBtn' = [disabled |-> TRUE,
                   text |-> IF editingEntryId # NoEntry THEN "Updating..."
                            ELSE "Saving..."]
    /\ pending' = pending (+) Await(
          IF editingEntryId # NoEntry
          THEN [op |-> "update", uid |-> currentUser, id |-> editingEntryId,
                sets |-> GroupsOf(setGroups), notes |-> Trim(notesInput)]
          ELSE [op |-> "create", uid |-> currentUser, entry |-> NewEntry])
    /\ lastCall' = [fn |-> "save", outcome |-> "issued", alert |-> FALSE]
    /\ UNCHANGED <<appVars, setGroups, notesInput, historyList, domVars, storeVars,
                   now, authFired, rxVars>>

\* The handler after its write: resetSetGroups, loadHistory(currentLiftId) up
\* to the await; signed out, loadHistory returns at once and the handler runs
\* to its end.
AfterWrite(editing, saved, rest) ==
    /\ notesInput' = <<>>
    /\ LoadHistoryStart(currentLiftId, "save", saved, rest)
    /\ IF currentUser = NoUser
       THEN /\ setGroups' = RxRefilled(<<EmptyRow>>)
            /\ saveBtn' = ButtonReady(editing)
       ELSE /\ setGroups' = <<EmptyRow>>
            /\ UNCHANGED saveBtn

\* WriteFailed clearing the form and the editing id as a successful write does.
WriteFailedReset(t) ==
    /\ pending' = pending (-) Await(t)
    /\ saveBtn' = ButtonReady(NoEntry)
    /\ setGroups' = <<EmptyRow>>
    /\ notesInput' = <<>>
    /\ editingEntryId' = NoEntry
    /\ UNCHANGED <<currentUser, currentSessionIndex, currentLiftId, currentRx,
                   todayEntries, historyList, domVars, storeVars, now>>

\* The handler's catch and finally after a failed write.
WriteFailed(t) ==
    /\ pending' = pending (-) Await(t)
    /\ saveBtn' = ButtonReady(editingEntryId)
    /\ UNCHANGED <<appVars, setGroups, notesInput, historyList, domVars, storeVars,
                   now>>

\* CreateReturn replacing today's entry of the same lift instead of adding one.
CreateReturnUpsert(t, ok) ==
    /\ BagIn(t, pending)
    /\ t.op = "create"
    /\ ok
    /\ now < MaxNow
    /\ entries' = {e \in entries : ~(e.owner = t.uid /\ e.lift = t.entry.lift
                                     /\ e.date # NoDate
                                     /\ Midnight(e.date) = Midnight(now))}
                  \cup {[id |-> nextId, owner |-> t.uid, lift |-> t.entry.lift,
                         date |-> now, sets |-> t.entry.sets,
                         notes |-> t.entry.notes, session |-> t.entry.session]}
    /\ nextId' = nextId + 1
    /\ now' = now + 1
    /\ todayEntries' = todayEntries \cup {currentLiftId}
    /\ overview' = [overview EXCEPT !.session = currentSessionIndex,
                      !.done = DoneRows(currentSessionIndex, todayEntries')]
    /\ AfterWrite(editingEntryId, nextId, pending (-) Await(t))
    /\ lastCall' = [fn |-> "create", uid |-> t.uid, ok |-> ok, id |-> nextId,
                    alert |-> ~ok]
    /\ UNCHANGED <<currentUser, editingEntryId, currentSessionIndex, currentLiftId,
                   currentRx, tabsRendered, liftDetailHidden, recentEl,
                   authFired, rxVars>>

\* The add() of a create returns: the store has added the document under a
\* fresh id with its own timestamp, or the write has failed.
CreateReturn(t, ok) ==
    /\ BagIn(t, pending)
    /\ t.op = "create"
    /\ IF ok
       THEN /\ now < MaxNow
            /\ entries' = entries \cup
                  {[id |-> nextId, owner |-> t.uid, lift |-> t.entry.lift,
                    date |-> now, sets |-> t.entry.sets, notes |-> t.entry.notes,
                    session |-> t.entry.session]}
            /\ nextId' = nextId + 1
            /\ now' = now + 1
            /\ todayEntries' = todayEntries \cup {currentLiftId}
            /\ overview' = [overview EXCEPT !.session = currentSessionIndex,
                              !.done = DoneRows(currentSessionIndex, todayEntries')]
            /\ AfterWrite(editingEntryId, nextId, pending (-) Await(t))
            /\ UNCHANGED <<currentUser, editingEntryId, currentSessionIndex,
                           currentLiftId, currentRx, tabsRendered, liftDetailHidden,
                           recentEl>>
       ELSE WriteFailed(t)
    /\ lastCall' = [fn |-> "create", uid |-> t.uid, ok |-> ok, id |-> nextId,
                    alert |-> ~ok]
    /\ UNCHANGED <<authFired, rxVars>>

\* UpdateReturn writing the whole document anew, as set() would.
UpdateReturnOverwrite(t, ok) ==
    /\ BagIn(t, pending)
    /\ t.op = "update"
    /\ ok
    /\ \E e \in UserDocs(t.uid) : e.id = t.id
    /\ entries' = {IF e.owner = t.uid /\ e.id = t.id
                   THEN [e EXCEPT !.sets = t.sets, !.notes = t.notes,
                                  !.lift = currentLiftId,
                                  !.session = SessionAt(currentSessionIndex).id]
                   ELSE e : e \in entries}
    /\ editingEntryId' = NoEntry
    /\ AfterWrite(NoEntry, NoEntry, pending (-) Await(t))
    /\ lastCall' = [fn |-> "update", uid |-> t.uid, ok |-> TRUE, id |-> t.id,
                    alert |-> FALSE]
    /\ UNCHANGED <<currentUser, currentSessionIndex, currentLiftId, currentRx,
                   todayEntries, domVars, nextId, now, authFired, rxVars>>

\* The update() of a save returns: the store has patched sets and notes of the
\* document, or the write has failed (as it does when no such document exists).
UpdateReturn(t, ok) ==
    /\ BagIn(t, pending)
    /\ t.op = "update"
    /\ LET done == ok /\ \E e \in UserDocs(t.uid) : e.id = t.id
       IN /\ IF done
             THEN /\ entries' = {IF e.owner = t.uid /\ e.id = t.id
                                 THEN [e EXCEPT !.sets = t.sets, !.notes = t.notes]
                                 ELSE e : e \in entries}
                  /\ editingEntryId' = NoEntry
                  /\ AfterWrite(NoEntry, NoEntry, pending (-) Await(t))
                  /\ UNCHANGED <<currentUser, currentSessionIndex, currentLiftId,
                                 currentRx, todayEntries, domVars, nextId, now>>
             ELSE WriteFailed(t)
          /\ lastCall' = [fn |-> "update", uid |-> t.uid, ok |-> done, id |-> t.id,
                          alert |-> ~done]
    /\ UNCHANGED <<authFired, rxVars>>

(***************************************************************************)
(* The app: a user signing in and out, browsing sessions, logging entries  *)
(***************************************************************************)
\* The rows of the shown overview the model's user clicks: the first MaxSlot.
MaxSlot == 2

\* The stores the app may find: nothing, or entries left by earlier use, one
\* of the user and one of another user.
InitStores ==
    {{},
     {[id |-> 1, owner |-> "u1", lift |-> "box_jumps", date |-> 0,
       sets |-> SomeSets, notes |-> <<>>, session |-> "session_a"],
      [id |-> 2, owner |-> "u2", lift |-> "box_jumps", date |-> 0,
       sets |-> SomeSets, notes |-> <<>>, session |-> "session_b"]}}

Init ==
    /\ InitApp
    /\ now = 1
    /\ entries \in InitStores
    /\ nextId = 3
    /\ rxArg = Undefined
    /\ rxResult = NotCalled
    /\ rxShape = NoShape
    /\ clicks = 0

\* A click on one of the rows the overview shows.
RowClick(k) ==
    /\ ~overview.hidden
    /\ overview.session # -1
    /\ k \in 1..Len(OverviewRows(overview.session))
    /\ SelectLift(OverviewRows(overview.session)[k].liftId,
                  OverviewRows(overview.session)[k].rx)

\* A click on the Edit button of the k-th listed entry.
EditClick(k) ==
    /\ k \in 1..Len(historyList.items)
    /\ StartEdit(historyList.items[k])

Next ==
    \/ SignedIn("u1") /\ UserEvent
    \/ SignedOut /\ UserEvent
    \/ \E t \in BagToSet(pending), ok \in BOOLEAN :
          DetermineReturn(t, ok) /\ Completion
    \/ \E t \in BagToSet(pending), ok \in BOOLEAN :
          TodayReturn(t, ok) /\ Completion
    \/ \E t \in BagToSet(pending), ok \in BOOLEAN :
          RecentReturn(t, ok) /\ Completion
    \/ \E t \in BagToSet(pending), ok \in BOOLEAN :
          HistoryReturn(t, ok) /\ Completion
    \/ \E t \in BagToSet(pending), ok \in BOOLEAN :
          CreateReturn(t, ok) /\ Completion
    \/ \E t \in BagToSet(pending), ok \in BOOLEAN :
          UpdateReturn(t, ok) /\ Completion
    \/ \E i \in 0..(Len(SESSIONS) - 1) : TabClick(i) /\ UserEvent
    \/ \E k \in 1..MaxSlot : RowClick(k) /\ UserEvent
    \/ \E k \in 1..MaxGroups, row \in RowInputs : TypeRow(k, row) /\ UserEvent
    \/ \E text \in NoteInputs : TypeNotes(text) /\ UserEvent
    \/ AddGroup /\ UserEvent
    \/ \E k \in 1..MaxGroups : RemoveGroup(k) /\ UserEvent
    \/ \E k \in 1..HistoryLimit : EditClick(k) /\ UserEvent
    \/ CancelEdit /\ UserEvent
    \/ SaveIgnored /\ UserEvent
    \/ SaveInvalid /\ UserEvent
    \/ SaveClick /\ UserEvent
    \/ Tick /\ UserEvent

Spec == Init /\ [][Next]_vars

(***************************************************************************)
(* Saving: what a write changes in the store                               *)
(***************************************************************************)
\* The ids of the stored entries.
StoredIds(docs) == {e.id : e \in docs}

\* C9: every step in which the update of a save succeeds changes, in the whole
\* store, only the sets and notes of the one entry it targets: that entry keeps
\* its id, owner, timestamp, lift and session, every other entry is as it was,
\* and no entry appears or disappears, whatever lift and tab are current; and a
\* save clicked while an entry is under edit issues an update of that entry.
C9_UpdatePatchesOnly ==
    [][/\ (lastCall'.fn = "update" /\ lastCall'.ok) =>
             /\ \E e \in entries : e.id = lastCall'.id /\ e.owner = lastCall'.uid
             /\ Cardinality(entries') = Cardinality(entries)
             /\ \A e \in entries :
                   IF e.id = lastCall'.id /\ e.owner = lastCall'.uid
                   THEN \E f \in entries' :
                           /\ f.id = e.id /\ f.owner = e.owner
                           /\ f.date = e.date /\ f.lift = e.lift
                           /\ f.session = e.session
                   ELSE e \in entries'
       /\ (lastCall'.fn = "save" /\ lastCall'.outcome = "issued"
             /\ editingEntryId # NoEntry) =>
             \E t \in BagToSet(pending') :
                 /\ pending' = pending (+) Await(t)
                 /\ t.op = "update" /\ t.id = editingEntryId
                 /\ DOMAIN t = {"op", "uid", "id", "sets", "notes"}
      ]_vars

\* An update has just succeeded on an entry of another lift and another session
\* than the current ones, with another user's entry in the store.
C9_Witness ==
    /\ lastCall.fn = "update" /\ lastCall.ok
    /\ \E e \in entries :
          /\ e.id = lastCall.id
          /\ e.lift # currentLiftId
          /\ e.session # SessionAt(currentSessionIndex).id
    /\ \E e \in entries : e.owner # lastCall.uid

\* C10: every step in which the create of a save succeeds adds exactly one
\* entry, under an id no stored entry has, and leaves every stored entry as it
\* was, also when the user already has an entry of that lift on that day; a
\* step in which an update returns keeps the set of ids; and a save clicked
\* with no entry under edit issues a create, with one under edit an update.
C10_CreateAddsOneEntry ==
    [][/\ (lastCall'.fn = "create" /\ lastCall'.ok) =>
             \E e \in entries' :
                 /\ e.id = lastCall'.id
                 /\ e.id \notin StoredIds(entries)
                 /\ entries' = entries \cup {e}
       /\ (lastCall'.fn = "update") => StoredIds(entries') = StoredIds(entries)
       /\ (lastCall'.fn = "save" /\ lastCall'.outcome = "issued") =>
             \E t \in BagToSet(pending') :
                 /\ pending' = pending (+) Await(t)
                 /\ t.op = IF editingEntryId = NoEntry THEN "create" ELSE "update"
       /\ (lastCall'.fn = "save" /\ lastCall'.outcome # "issued") =>
             pending' = pending /\ entries' = entries
      ]_vars

\* A create has just succeeded while the user already had an entry of the same
\* lift dated the same day.
C10_Witness ==
    /\ lastCall.fn = "create" /\ lastCall.ok
    /\ \E e, f \in entries :
          /\ e.id = lastCall.id /\ f.id # e.id
          /\ f.owner = e.owner /\ f.lift = e.lift
          /\ f.date # NoDate /\ Midnight(f.date) = Midnight(e.date)

(***************************************************************************)
(* parseRx called on prescriptions written every way the notation allows   *)
(***************************************************************************)
\* Numbers as they are written, with their values.
Numerals ==
    {[text |-> <<"2">>, val |-> 2], [text |-> <<"1", "0">>, val |-> 10],
     [text |-> <<"0", "5">>, val |-> 5]}

\* The second number of a range: one of two, or none when no range is given.
NoNumeral == [text |-> <<>>, val |-> -1]
RangeEnds == {NoNumeral, [text |-> <<"1", "2">>, val |-> 12],
              [text |-> <<"3">>, val |-> 3]}

Gaps == {<<>>, <<" ", "\t">>}
Signs == {"x", "X", MulSign}

\* The start of an alt list: the marker and the schemes before the last one.
AltPrefixes ==
    {<<>>, <<"a", "l", "t", ":", " ", "7", "x", "9", ",", " ">>,
     <<"A", "L", "T", ":", "1", "-", "7", " ", "X", " ", "9", "-", "1", "1", ",", "8", "x", "8", " ", ",">>}

Sides == {<<>>, <<"/", "s", "i", "d", "e">>, <<"/", "S", "I", "D", "E">>}

\* The scheme A[-B] x C[-D] as text.
RenderRange(first, last, gap) ==
    first.text \o (IF last = NoNumeral THEN <<>>
                   ELSE gap \o <<"-">> \o gap \o last.text)

RenderScheme(sh) ==
    RenderRange(sh.a, sh.b, sh.gap) \o sh.gap \o <<sh.sign>> \o sh.gap
        \o RenderRange(sh.c, sh.d, sh.gap)

\* The longest text without a scheme that the model tries letter by letter.
MaxJunkLen == 4
JunkAlphabet == {"3", "x", "-", " ", "a"}

RECURSIVE TextsUpTo(_)
TextsUpTo(n) ==
    IF n = 0 THEN {<<>>}
    ELSE LET shorter == TextsUpTo(n - 1)
         IN shorter \cup {Append(t, c) : t \in shorter, c \in JunkAlphabet}

\* Texts of a program's vocabulary that are no scheme, and one, the last, in
\* which removing the side mark leaves a scheme.
OtherTexts ==
    {<<"A", "M", "R", "A", "P">>, <<"m", "a", "x">>,
     <<"a", "l", "t", ":">>, <<"a", "l", "t", ":", " ", "3", "x", "5", ",">>,
     <<"3", " ", "s", "e", "t", "s", " ", "-", " ", "5", " ", "r", "e", "p", "s">>,
     <<"3", "/", "s", "i", "d", "e", "x", "5">>}

AltExample == <<"a", "l", "t", ":", " ", "3", "x", "5", ",", " ", "4", "x", "5", "-", "6">>
SideExample == <<"2", "-", "3", " ", "x", " ", "1", "0", "-", "1", "5", "/", "s", "i", "d", "e">>

RxShapes ==
    {[kind |-> "none", value |-> v] : v \in {Undefined, Null}}
    \cup {[kind |-> "text", text |-> t] :
             t \in TextsUpTo(MaxJunkLen) \cup OtherTexts \cup CatalogRx}
    \cup {[kind |-> "scheme", alt |-> alt, a |-> a, b |-> b, gap |-> gap,
           sign |-> sign, c |-> c, d |-> d, side |-> side] :
             alt \in AltPrefixes, a \in Numerals, b \in RangeEnds, gap \in Gaps,
             sign \in Signs, c \in Numerals, d \in RangeEnds, side \in Sides}

Render(shape) ==
    CASE shape.kind = "none" -> shape.value
      [] shape.kind = "text" -> shape.text
      [] shape.kind = "scheme" -> shape.alt \o RenderScheme(shape) \o shape.side

\* parseRx(rxArg), called directly.
RxCall ==
    /\ ~rxResult.called
    /\ rxResult' = [called |-> TRUE, value |-> parseRx(rxArg)]
    /\ lastCall' = [fn |-> "parseRx"]
    /\ UNCHANGED <<appVars, formVars, domVars, storeVars, now, authFired, pending,
                   rxArg, rxShape>>

\* selectLift called with the prescription, on the first lift of the overview
\* the signed-out app shows.
RxSelect ==
    /\ ~overview.hidden
    /\ SelectLift(OverviewRows(overview.session)[1].liftId, rxArg)

InitRx ==
    /\ InitApp
    /\ now = 1
    /\ entries = {}
    /\ nextId = 1
    /\ rxShape \in RxShapes
    /\ rxArg = Render(rxShape)
    /\ rxResult = NotCalled
    /\ clicks = 0

NextRx ==
    \/ RxCall /\ Completion
    \/ SignedOut /\ Completion
    \/ RxSelect /\ Completion

SpecRx == InitRx /\ [][NextRx]_vars

\* The numbers a scheme asks for: the end of each range, or the single number.
Expected(sh) ==
    [maxSets |-> IF sh.b = NoNumeral THEN sh.a.val ELSE sh.b.val,
     maxReps |-> IF sh.d = NoNumeral THEN sh.c.val ELSE sh.d.val]

\* C5: parseRx called on a scheme A[-B] x C[-D], whatever the sign and the
\* whitespace, returns as maxSets the value of B if the set range is given and
\* of A if not, and as maxReps the value of D if the rep range is given and of
\* C if not.
C5_UpperBounds ==
    (/\ rxResult.called
     /\ rxShape.kind = "scheme" /\ rxShape.alt = <<>> /\ rxShape.side = <<>>)
    => rxResult.value = Expected(rxShape)

\* parseRx has returned the ends of both ranges of a scheme written with the
\* multiplication sign and whitespace.
C5_Witness ==
    /\ rxResult.called
    /\ rxShape.kind = "scheme" /\ rxShape.alt = <<>> /\ rxShape.side = <<>>
    /\ rxShape.b # NoNumeral /\ rxShape.d # NoNumeral
    /\ rxShape.sign = MulSign /\ rxShape.gap # <<>>
    /\ rxResult.value = [maxSets |-> rxShape.b.val, maxReps |-> rxShape.d.val]
    /\ rxShape.a.val < rxShape.b.val /\ rxShape.c.val < rxShape.d.val

\* C6: parseRx called on an alt list, the marker in any letter case, returns
\* the numbers of the last scheme of the list, whatever the earlier schemes
\* are; "alt: 3x5, 4x5-6" gives 4 and 6.
C6_LastSchemeOfAlt ==
    /\ (/\ rxResult.called
        /\ rxShape.kind = "scheme" /\ rxShape.alt # <<>>)
       => rxResult.value = Expected(rxShape)
    /\ (rxResult.called /\ rxArg = AltExample)
       => rxResult.value = [maxSets |-> 4, maxReps |-> 6]

\* parseRx has returned the numbers of the last scheme of a list whose earlier
\* schemes ask for other numbers (7x9, 1-7 x 9-11, 8x8).
C6_Witness ==
    /\ rxResult.called
    /\ rxShape.kind = "scheme" /\ rxShape.alt # <<>> /\ rxShape.side = <<>>
    /\ rxShape.b # NoNumeral
    /\ rxResult.value = Expected(rxShape)
    /\ rxResult.value.maxSets \notin {7, 8}
    /\ rxResult.value.maxReps \notin {8, 9, 11}

\* What is written without the side mark.
WithoutSide(shape) == Render([shape EXCEPT !.side = <<>>])

\* C7: parseRx called on a scheme or an alt list followed by "/side", in any
\* letter case, returns what it returns for the same text without the mark,
\* the numbers of the scheme; "2-3 x 10-15/side" gives 3 and 15.
C7_SideIgnored ==
    /\ (/\ rxResult.called
        /\ rxShape.kind = "scheme" /\ rxShape.side # <<>>)
       => /\ rxResult.value = parseRx(WithoutSide(rxShape))
          /\ rxResult.value = Expected(rxShape)
    /\ (rxResult.called /\ rxArg = SideExample)
       => rxResult.value = [maxSets |-> 3, maxReps |-> 15]

\* parseRx has returned, for a scheme ending in a two-digit range end and the
\* mark, that range end.
C7_Witness ==
    /\ rxResult.called
    /\ rxShape.kind = "scheme" /\ rxShape.side # <<>>
    /\ rxShape.d # NoNumeral /\ rxShape.d.val >= 10
    /\ rxResult.value.maxReps = rxShape.d.val
    /\ rxArg # WithoutSide(rxShape)

\* The text holds a scheme somewhere: a digit, a sign and a digit, with at
\* most whitespace between them.
HasScheme(s) ==
    \E i, j, k \in 1..Len(s) :
        /\ i < j /\ j < k
        /\ s[i] \in Digit /\ s[j] \in Signs /\ s[k] \in Digit
        /\ \A m \in (i + 1)..(j - 1) : s[m] \in WhiteSpace
        /\ \A m \in (j + 1)..(k - 1) : s[m] \in WhiteSpace

\* The prescription gives parseRx nothing to parse: it is undefined, null or
\* empty, or what is left of it for the pattern, after the cut to the last
\* element of an alt list and the removal of the side mark, holds no scheme.
NothingToParse(rx) == Falsy(rx) \/ ~HasScheme(StripSide(AltLast(rx)))

\* C8: parseRx called on a prescription that is undefined, empty or without a
\* scheme returns null, and selectLift called with such a prescription leaves
\* the sets and reps fields of the form's one row empty.
C8_NullWithoutScheme ==
    /\ (rxResult.called /\ NothingToParse(rxArg)) => rxResult.value = ParseNull
    /\ (lastCall.fn = "selectLift" /\ NothingToParse(currentRx))
       => /\ Len(setGroups) = 1
          /\ setGroups[1].sets = <<>> /\ setGroups[1].reps = <<>>

\* parseRx has returned null for a text that is not empty, and selectLift,
\* called with that text, has left the row empty.
C8_Witness ==
    /\ rxResult.called /\ rxResult.value = ParseNull
    /\ rxShape.kind = "text" /\ Len(rxArg) = MaxJunkLen
    /\ \E i \in 1..Len(rxArg) : rxArg[i] \in Digit
    /\ \E i \in 1..Len(rxArg) : rxArg[i] \in Signs
    /\ lastCall.fn = "selectLift" /\ currentRx = rxArg
    /\ setGroups = <<EmptyRow>>

(***************************************************************************)
(* Saving: the history the handler loads after its write                   *)
(***************************************************************************)
\* The history query that a save ran after creating an entry has returned
\* its documents.
ReloadedAfterCreate ==
    /\ lastCall.fn = "loadHistory" /\ lastCall.cont = "save"
    /\ lastCall.saved # NoEntry /\ ~lastCall.logged

\* The entry the save created.
SavedEntry == CHOOSE e \in entries : e.id = lastCall.saved

WriteDone == lastCall.fn \in {"create", "update"} /\ lastCall.ok

\* The entry that write created or patched.
WrittenEntry == CHOOSE e \in entries : e.id = lastCall.id

\* C12: every entry a save has just written has at least one set group, and
\* each of its set groups has sets >= 1, reps >= 1 and weight >= 0.
C12_WrittenGroupsInRange ==
    WriteDone =>
        /\ Len(WrittenEntry.sets) >= 1
        /\ \A k \in 1..Len(WrittenEntry.sets) :
              /\ WrittenEntry.sets[k].sets >= 1
              /\ WrittenEntry.sets[k].reps >= 1
              /\ WrittenEntry.sets[k].weight >= 0

\* A row in which sets, reps or weight is missing, or sets or reps is zero.
LacksValue(row) ==
    \/ row.sets = <<>> \/ row.reps = <<>> \/ row.weight = <<>>
    \/ row.sets[1] = 0 \/ row.reps[1] = 0

FormLacksValue ==
    setGroups = <<>> \/ \E k \in 1..Len(setGroups) : LacksValue(setGroups[k])

\* C13: every click on save by a signed-in user with a lift selected, while
\* the form has no row or a row that lacks a value, issues no request, changes
\* neither the store, the completion set, the editing id nor the form, and
\* alerts the user.
C13_InvalidFormNoWrite ==
    [][(/\ lastCall'.fn = "save"
        /\ currentUser # NoUser /\ currentLiftId # NoLift
        /\ FormLacksValue)
       => /\ lastCall'.outcome = "invalid" /\ lastCall'.alert
          /\ pending' = pending /\ entries' = entries
          /\ todayEntries' = todayEntries /\ editingEntryId' = editingEntryId
          /\ setGroups' = setGroups /\ notesInput' = notesInput
          /\ saveBtn' = saveBtn
      ]_vars

\* Save has been refused on a form of two rows, the first complete and the
\* second empty.
C13_Witness ==
    /\ lastCall.fn = "save" /\ lastCall.outcome = "invalid" /\ lastCall.alert
    /\ Len(setGroups) = 2
    /\ ~LacksValue(setGroups[1]) /\ LacksValue(setGroups[2])
    /\ pending = EmptyBag

\* C14: every step in which the write of a save fails leaves the store, the
\* completion set, the form's rows and notes and the editing id as they were,
\* issues no further request, alerts the user, and enables the button again,
\* labelled for the same save.
C14_FailedWriteNotApplied ==
    [][(lastCall'.fn \in {"create", "update"} /\ ~lastCall'.ok)
       => /\ entries' = entries /\ nextId' = nextId
          /\ todayEntries' = todayEntries
          /\ setGroups' = setGroups /\ notesInput' = notesInput
          /\ editingEntryId' = editingEntryId
          /\ lastCall'.alert
          /\ saveBtn' = [disabled |-> FALSE,
                         text |-> IF editingEntryId # NoEntry THEN "Update"
                                  ELSE "Save"]
          /\ \E t \in BagToSet(pending) :
                t.op = lastCall'.fn /\ pending' = pending (-) Await(t)
      ]_vars

\* An update has just failed: the entry is still under edit, its values are
\* still in the form, and the button says Update.
C14_Witness ==
    /\ lastCall.fn = "update" /\ ~lastCall.ok /\ lastCall.alert
    /\ editingEntryId = lastCall.id
    /\ saveBtn = [disabled |-> FALSE, text |-> "Update"]
    /\ \E e \in entries :
          /\ e.id = editingEntryId
          /\ Len(setGroups) = Len(e.sets)
          /\ setGroups[1].weight = <<e.sets[1].weight>>


(***************************************************************************)
(* C15: the completion set after a load of today's entries.               *)
(***************************************************************************)

\* The load of today's entries has just returned successfully.
TodayLoaded == lastCall.fn = "loadTodayEntries" /\ ~lastCall.logged

\* The entry's timestamp falls on the calendar day of instant t; a timestamp
\* the server has yet to resolve belongs to a write of this moment.
OnDayOf(e, t) == e.date = NoDate \/ CalendarDay(e.date) = CalendarDay(t)

\* C15: after a successful load of today's entries, the completion set is
\* exactly the set of lifts of the entries of the user the load was made for
\* whose date falls on the current calendar day, the entries of other days and
\* of other users contributing nothing; the overview marks these lifts done.
C15_CompletedAreTodaysLifts ==
    TodayLoaded =>
       /\ todayEntries = {e.lift : e \in {d \in entries :
                                            /\ d.owner = lastCall.uid
                                            /\ OnDayOf(d, now)}}
       /\ overview = ShownOverview(lastCall.index, todayEntries)

\* The load found an entry written at this day's midnight and one written on
\* the calendar's first day: only the first one's lift is completed.
C15_Witness ==
    /\ TodayLoaded
    /\ RotOlder \in entries
    /\ \E e \in entries : /\ e.lift = "box_jumps" /\ e.owner = lastCall.uid
                          /\ e.date = Midnight(now) /\ e.date # now
    /\ todayEntries = {"box_jumps"}

(***************************************************************************)
(* Saving: the completion set after the write                              *)
(***************************************************************************)
\* C16: every step in which the write of a save, create or update, succeeds
\* leaves the lift of the written entry in the completion set and keeps every
\* lift that was in it, without issuing a query for today's entries.
C16_SavedLiftCompleted ==
    [][(lastCall'.fn \in {"create", "update"} /\ lastCall'.ok)
       => /\ \E e \in entries' :
                /\ e.id = lastCall'.id /\ e.owner = lastCall'.uid
                /\ e.lift \in todayEntries'
          /\ todayEntries \subseteq todayEntries'
          /\ \A t \in BagToSet(pending') :
                t.op = "today" => CopiesIn(t, pending') = CopiesIn(t, pending)
      ]_vars

(***************************************************************************)
(* Auth transitions: what a sign-out and a sign-in leave behind            *)
(***************************************************************************)
\* C17: once a sign-out has been processed the session index is 0, the
\* completion set is empty and the overview shows no row as done; and once the
\* loads of a sign-in have returned, the completion set holds only lifts of
\* entries of the user who signed in.
C17_AuthTransitionResets ==
    /\ lastCall.fn = "signedOut"
          => /\ currentSessionIndex = 0
             /\ todayEntries = {}
             /\ overview.done = {}
    /\ (TodayLoaded /\ lastCall.uid = currentUser)
          => todayEntries \subseteq {e.lift : e \in UserDocs(currentUser)}

(***************************************************************************)
(* Late results: the history of a lift that is no longer selected          *)
(***************************************************************************)
\* C18: every step in which the history query of a selection returns for a
\* lift while another lift is the selected one leaves the history list and the
\* form's rows as they were; and every returning history query that leaves no
\* other in flight, with a lift selected, leaves in the list only entries of
\* the selected lift.
C18_StaleHistoryDiscarded ==
    [][/\ (/\ lastCall'.fn = "loadHistory" /\ lastCall'.cont = "select"
           /\ currentLiftId # NoLift /\ lastCall'.liftId # currentLiftId)
          => /\ historyList' = historyList
             /\ setGroups' = setGroups
       /\ (/\ lastCall'.fn = "loadHistory" /\ lastCall'.cont = "select"
           /\ currentLiftId # NoLift
           /\ \A t \in BagToSet(pending') : t.op # "history")
          => \A k \in 1..Len(historyList'.items) :
                historyList'.items[k].lift = currentLiftId
      ]_vars

(***************************************************************************)
(* Late results: the load of a session that is no longer the active one    *)
(***************************************************************************)
\* C19: whenever a user is signed in and no session load and no session
\* lookup is in flight, the overview shown is that of the session at the
\* current session index, whatever the order in which the loads returned.
C19_StaleSessionLoadIgnored ==
    (/\ currentUser # NoUser
     /\ ~overview.hidden
     /\ \A t \in BagToSet(pending) : t.op \notin {"today", "determine"})
    => overview.session = currentSessionIndex

(***************************************************************************)
(* History: the weight auto-fill                                           *)
(***************************************************************************)
\* The step is the return of a history query with a non-empty result.
HistoryListed ==
    /\ lastCall'.fn = "loadHistory" /\ ~lastCall'.logged
    /\ historyList'.status = "list"

\* C20: every step in which a history query returns a non-empty result lists
\* first the most recent entry of the queried lift, and, if the form has a
\* row, sets the weight field of the first row to the weight of that entry's
\* first set group if the field is empty and leaves it as it is if not; the
\* other rows are left alone, and the sets and reps fields of the first row
\* are what they would be with no history: unchanged after a selection, the
\* prescription's after a save.
C20_WeightFilledOnlyIfEmpty ==
    [][HistoryListed =>
         LET recent == historyList'.items[1]
         IN /\ recent.owner = lastCall'.uid /\ recent.lift = lastCall'.liftId
            /\ \A d \in UserDocs(lastCall'.uid) :
                  d.lift = lastCall'.liftId => d.date <= recent.date
            /\ Len(setGroups') = Len(setGroups)
            /\ \A k \in 2..Len(setGroups) : setGroups'[k] = setGroups[k]
            /\ setGroups # <<>> =>
                  /\ setGroups'[1].weight =
                        IF setGroups[1].weight = <<>>
                        THEN <<recent.sets[1].weight>>
                        ELSE setGroups[1].weight
                  /\ lastCall'.cont = "select" =>
                        /\ setGroups'[1].sets = setGroups[1].sets
                        /\ setGroups'[1].reps = setGroups[1].reps
                  /\ lastCall'.cont = "save" =>
                        /\ setGroups'[1].sets = RxRefilled(setGroups)[1].sets
                        /\ setGroups'[1].reps = RxRefilled(setGroups)[1].reps
      ]_vars

\* The history of a selected lift has returned and filled the empty weight
\* field of the row, next to the sets and reps of the prescription.
C20_Witness ==
    /\ lastCall.fn = "loadHistory" /\ ~lastCall.logged /\ lastCall.cont = "select"
    /\ historyList.status = "list"
    /\ lastCall.liftId = currentLiftId
    /\ Len(setGroups) = 1
    /\ setGroups[1].weight = <<historyList.items[1].sets[1].weight>>
    /\ setGroups[1].weight \notin {r.weight : r \in RowInputs}
    /\ setGroups[1].sets # <<>>

(***************************************************************************)
(* Saving: the session tag of a created entry                              *)
(***************************************************************************)
\* C21: every save that issues a create tags the entry, session mode being
\* active, with the id of the catalogue session at the session index current
\* at the click; every create that succeeds stores the entry with the tag and
\* the lift it was issued with; and no step, tab click and update included,
\* adds, changes or removes the tag of a stored entry.
C21_SessionTagFixedAtClick ==
    [][/\ (/\ lastCall'.fn = "save" /\ lastCall'.outcome = "issued"
           /\ editingEntryId = NoEntry)
          => \E t \in BagToSet(pending') :
                /\ pending' = pending (+) Await(t)
                /\ t.op = "create"
                /\ useSessionMode
                /\ t.entry.session = SESSIONS[currentSessionIndex + 1].id
       /\ (lastCall'.fn = "create" /\ lastCall'.ok)
          => \E t \in BagToSet(pending), e \in entries' \ entries :
                /\ t.op = "create"
                /\ CopiesIn(t, pending') < CopiesIn(t, pending)
                /\ e.id = lastCall'.id
                /\ e.session = t.entry.session /\ e.lift = t.entry.lift
       /\ \A e \in entries :
             \E f \in entries' :
                 f.id = e.id /\ f.owner = e.owner /\ f.session = e.session
      ]_vars

\* A create has just succeeded after a click on another session's tab: the
\* entry carries a session's id that is not that of the current index.
C21_Witness ==
    /\ lastCall.fn = "create" /\ lastCall.ok
    /\ ~NoSessionId(WrittenEntry.session)
    /\ WrittenEntry.session # SESSIONS[currentSessionIndex + 1].id

(***************************************************************************)
(* The recent-sessions list                                                *)
(***************************************************************************)
\* The instant the list is loaded at.
RecentNow == 60

\* Entries of user u1 a store may hold: two of session A, one of session B,
\* one of a session the catalogue no longer has, one without a session, one
\* of session C, and one of session B whose timestamp is unresolved.
RecentPool ==
    {[id |-> 1, owner |-> "u1", lift |-> "box_jumps", date |-> 60,
      sets |-> SomeSets, notes |-> <<>>, session |-> "session_a"],
     [id |-> 2, owner |-> "u1", lift |-> "dips", date |-> 59,
      sets |-> SomeSets, notes |-> <<>>, session |-> RetiredSession],
     [id |-> 3, owner |-> "u1", lift |-> "row", date |-> 58,
      sets |-> SomeSets, notes |-> <<>>, session |-> "session_b"],
     [id |-> 4, owner |-> "u1", lift |-> "row", date |-> 56,
      sets |-> SomeSets, notes |-> <<>>, session |-> ""],
     [id |-> 5, owner |-> "u1", lift |-> "row", date |-> 50,
      sets |-> SomeSets, notes |-> <<>>, session |-> "session_a"],
     [id |-> 6, owner |-> "u1", lift |-> "dips", date |-> 40,
      sets |-> SomeSets, notes |-> <<>>, session |-> "session_c"],
     [id |-> 7, owner |-> "u1", lift |-> "row", date |-> NoDate,
      sets |-> SomeSets, notes |-> <<>>, session |-> "session_b"]}

\* The stores tried: none of the user's entries, or the pool without any of
\* its entries of ids 1, 2, 3, 6 and 7; another user's entry in each.
RecentStores ==
    {{RotForeign(RecentNow)}}
    \cup {(RecentPool \ drop) \cup {RotForeign(RecentNow)} :
             drop \in SUBSET {e \in RecentPool : e.id \in {1, 2, 3, 6, 7}}}

InitRecent ==
    /\ InitApp
    /\ now = RecentNow
    /\ entries \in RecentStores
    /\ nextId = 8
    /\ rxArg = Undefined
    /\ rxResult = NotCalled
    /\ rxShape = NoShape
    /\ clicks = 0

SpecRecent == InitRecent /\ [][NextRot]_vars

\* The entries of the user among the 50 most recent: fewer than 50 of the
\* user's entries are newer.
AmongRecent(uid) ==
    {e \in UserDocs(uid) :
        Cardinality({d \in UserDocs(uid) \ {e} :
                        d.date = NoDate \/ (e.date # NoDate /\ d.date > e.date)})
           < RecentLimit}

\* The session ids that entries among the 50 most recent carry with a date.
TaggedSessions(uid) ==
    {e.session : e \in {d \in AmongRecent(uid) :
                          ~NoSessionId(d.session) /\ d.date # NoDate}}

\* The timestamp of the most recent dated entry of session s among them.
LatestOf(uid, s) ==
    LET dates == {e.date : e \in {d \in AmongRecent(uid) :
                                    d.session = s /\ d.date # NoDate}}
    IN CHOOSE m \in dates : \A d \in dates : d <= m

\* The sessions the list is to show: the catalogue's sessions among the three
\* most recently logged ones.
ExpectedRecent(uid) ==
    {s \in TaggedSessions(uid) :
        /\ \E i \in 1..Len(SESSIONS) : SESSIONS[i].id = s
        /\ Cardinality({r \in TaggedSessions(uid) :
                           LatestOf(uid, r) > LatestOf(uid, s)}) < RecentShown}

\* The load of the recent sessions has just returned successfully.
RecentLoaded == lastCall.fn = "loadRecentSessions" /\ ~lastCall.logged

C23_FailedReadFallsBack ==
    [][/\ (lastCall'.fn = "loadTodayEntries" /\ lastCall'.logged)
          => /\ todayEntries' = {}
             /\ overview' = [hidden |-> FALSE, session |-> lastCall'.index,
                             done |-> {}]
             /\ UNCHANGED <<formVars, historyList, entries, currentLiftId,
                            currentSessionIndex>>
             /\ \E t \in BagToSet(pending) :
                   t.op = "today" /\ pending' = pending (-) Await(t)
       /\ (lastCall'.fn = "loadHistory" /\ lastCall'.logged)
          => /\ historyList' = [status |-> "failed", items |-> <<>>]
             /\ notesInput' = notesInput
             /\ lastCall'.cont = "select"
                   => setGroups' = setGroups /\ saveBtn' = saveBtn
             /\ lastCall'.cont = "save"
                   => /\ setGroups' = RxRefilled(setGroups)
                      /\ ~saveBtn'.disabled
             /\ UNCHANGED <<todayEntries, overview, entries, currentLiftId,
                            currentSessionIndex, editingEntryId>>
             /\ \E t \in BagToSet(pending) :
                   t.op = "history" /\ pending' = pending (-) Await(t)
      ]_vars

\* Both reads have failed, the overview was shown with no row done, a lift was
\* selected from it, and the save clicked afterwards has been issued.
C23_Witness ==
    /\ lastCall.fn = "save" /\ lastCall.outcome = "issued"
    /\ historyList.status = "failed"
    /\ todayEntries = {} /\ ~overview.hidden /\ overview.done = {}
    /\ \E e \in UserDocs(currentUser) :
          e.lift = currentLiftId /\ e.date >= Midnight(now)

(***************************************************************************)
(* Editing: what the editing id points at                                  *)
(***************************************************************************)
\* The entry of the signed-in user with the id under edit is of the selected
\* lift.
EditingSelected(user, liftId, id, docs) ==
    \E e \in docs : e.id = id /\ e.owner = user /\ e.lift = liftId

\* C24: every save that issues an update targets an entry of the selected
\* lift owned by the signed-in user, and after every step an editing id that
\* is set is the id of such an entry: it does not survive the selection of
\* another lift, a click on a session tab, or a sign-out.
C24_EditingIdOfSelectedLift ==
    [][/\ (/\ lastCall'.fn = "save" /\ lastCall'.outcome = "issued"
           /\ editingEntryId # NoEntry)
          => EditingSelected(currentUser, currentLiftId, editingEntryId, entries)
       /\ editingEntryId' # NoEntry
          => EditingSelected(currentUser', currentLiftId', editingEntryId',
                             entries')
      ]_vars

(***************************************************************************)
(* Saving: the id added to the completion set                              *)
(***************************************************************************)
\* C25: every step in which the create of a save succeeds adds to the
\* completion set the lift stored in the entry just created: nothing else is
\* added, neither another lift nor the null of no selection.
C25_AddedLiftIsStoredLift ==
    [][(lastCall'.fn = "create" /\ lastCall'.ok)
       => \E e \in entries' \ entries :
             /\ e.id = lastCall'.id
             /\ todayEntries' = todayEntries \cup {e.lift}
             /\ NoLift \notin todayEntries'
      ]_vars

(***************************************************************************)
(* Saving: the session tag and the lift of a created entry                 *)
(***************************************************************************)
\* The lifts of the slots of a catalogue session, fixed or choose-one.
SlotLifts(session) ==
    UNION {IF session.lifts[k].kind = "choose"
           THEN {session.lifts[k].choose[c].liftId :
                    c \in 1..Len(session.lifts[k].choose)}
           ELSE {session.lifts[k].liftId} : k \in 1..Len(session.lifts)}

\* C26: every step in which the create of a save succeeds stores an entry
\* tagged with the id of a catalogue session that has a slot for the entry's
\* lift.
C26_TagOfASessionWithTheLift ==
    [][(lastCall'.fn = "create" /\ lastCall'.ok)
       => \E e \in entries' \ entries :
             /\ e.id = lastCall'.id
             /\ \E i \in 1..Len(SESSIONS) :
                   SESSIONS[i].id = e.session /\ e.lift \in SlotLifts(SESSIONS[i])
      ]_vars

(***************************************************************************)
(* The session index                                                       *)
(***************************************************************************)
\* C27: in every reachable state the current session index is an index of
\* the catalogue, at least 0 and less than the number of sessions.
C27_SessionIndexValid ==
    currentSessionIndex \in 0..(Len(SESSIONS) - 1)

\* The session query has returned for a user whose most recent entry is of
\* the catalogue's last session and of another day: the index has wrapped to
\* 0; and the overview of that session is shown.
C27_Witness ==
    /\ currentUser # NoUser
    /\ currentSessionIndex = 0
    /\ overview = ShownOverview(0, todayEntries)
    /\ \E e \in entries :
          /\ IsMostRecent(e, currentUser)
          /\ e.session = SESSIONS[Len(SESSIONS)].id
          /\ e.date # NoDate /\ CalendarDay(e.date) # CalendarDay(now)

(***************************************************************************)
(* Saving: one write at a time                                             *)
(***************************************************************************)
\* The writes of saves among the requests in flight, and the history reloads
\* that saves await after their writes.
WritesIn(bag) == {t \in BagToSet(bag) : t.op \in {"create", "update"}}

ReloadsIn(bag) == {t \in BagToSet(bag) : t.op = "history" /\ t.cont = "save"}

\* C28: after every step at most one write of a save is in flight, and while
\* a write or the history reload that follows it is in flight the save button
\* is disabled; a save is issued only when neither is in flight; and a click
\* on save while signed out or with no lift selected issues nothing.
C28_OneWriteInFlight ==
    [][/\ \A t \in WritesIn(pending') :
             CopiesIn(t, pending') = 1 /\ WritesIn(pending') = {t}
       /\ (WritesIn(pending') \cup ReloadsIn(pending')) # {} => saveBtn'.disabled
       /\ (lastCall'.fn = "save" /\ lastCall'.outcome = "issued")
             => /\ WritesIn(pending) \cup ReloadsIn(pending) = {}
                /\ currentUser # NoUser /\ currentLiftId # NoLift
       /\ (lastCall'.fn = "save" /\ (currentUser = NoUser \/ currentLiftId = NoLift))
             => pending' = pending /\ entries' = entries
      ]_vars

\* The write of a save has succeeded and its history reload is in flight: the
\* button is still disabled, with the form already reset.
C28_Witness ==
    /\ lastCall.fn \in {"create", "update"} /\ lastCall.ok
    /\ ReloadsIn(pending) # {}
    /\ saveBtn.disabled
    /\ setGroups = <<EmptyRow>>

(***************************************************************************)
(* Saving: every save finishes                                             *)
(***************************************************************************)
\* The user events a session of the app has when progress is checked.
LiveEvents == 4

InitLive ==
    /\ InitApp
    /\ now = 1
    /\ entries \in InitStores
    /\ nextId = 3
    /\ rxArg = Undefined
    /\ rxResult = NotCalled
    /\ rxShape = NoShape
    /\ clicks = MaxClicks - LiveEvents

\* A write of a save in flight returns, with success or failure.
WriteReturns ==
    \E t \in BagToSet(pending), ok \in BOOLEAN :
        (CreateReturn(t, ok) \/ UpdateReturn(t, ok)) /\ Completion

\* A history query in flight returns, with success or failure.
HistoryReturns ==
    \E t \in BagToSet(pending), ok \in BOOLEAN : HistoryReturn(t, ok) /\ Completion

\* The app with every write and every history query eventually returning.
SpecLive ==
    InitLive /\ [][Next]_vars /\ WF_vars(WriteReturns) /\ WF_vars(HistoryReturns)

\* C29: provided every write and every history query eventually returns, a
\* save button disabled by an issued save is eventually enabled again; and
\* the step that enables it labels it Update if an editing id is set at that
\* moment and Save if not.
C29_SaveEventuallyFinishes ==
    /\ saveBtn.disabled ~> ~saveBtn.disabled
    /\ [][(saveBtn.disabled /\ ~saveBtn'.disabled)
          => saveBtn'.text = IF editingEntryId' # NoEntry THEN "Update"
                             ELSE "Save"]_vars

\* The reload of a save has returned and the button is enabled again, labelled
\* Update for an edit started while the write was in flight.
C29_Witness ==
    /\ lastCall.fn = "loadHistory" /\ lastCall.cont = "save"
    /\ editingEntryId # NoEntry
    /\ saveBtn = [disabled |-> FALSE, text |-> "Update"]

(***************************************************************************)
(* The rotation: a most recent entry whose timestamp is unresolved         *)
(***************************************************************************)
\* C30: whenever the session query returns successfully for a user whose
\* most recent entry carries the id of a catalogue session and no resolved
\* timestamp, the entry counts as dated today: the index returned, and made
\* current, is that session's own index, never the next one.
C30_UndatedEntryResumes ==
    Determined =>
        \A e \in entries :
            (/\ IsMostRecent(e, lastCall.uid)
             /\ e.date = NoDate
             /\ \E i \in 1..Len(SESSIONS) : SESSIONS[i].id = e.session)
            => /\ SESSIONS[lastCall.value + 1].id = e.session
               /\ currentSessionIndex = lastCall.value

\* The query has returned the index of the catalogue's last session for a
\* most recent entry of that session without a resolved timestamp, with an
\* older entry of the user in the store.
C30_Witness ==
    /\ Determined
    /\ lastCall.value = Len(SESSIONS) - 1
    /\ RotOlder \in entries
    /\ \E e \in entries :
          /\ IsMostRecent(e, lastCall.uid)
          /\ e.date = NoDate
          /\ e.session = SESSIONS[Len(SESSIONS)].id
=============================================================================
